---------------------------- MODULE Spec2Model ----------------------------
(***************************************************************************)
(* Spaced-repetition and learner-memory scheduling engine of               *)
(* Studying-coach: services/scheduler.py (SM-2 card scheduler and theme    *)
(* interleaver) and services/contextual_memory.py (concept memories).      *)
(*                                                                         *)
(* Number representation.  Python floats are modelled as exact decimals:   *)
(* the ease factor in hundredths (2.5 is 250), the concept-memory signals  *)
(* in thousandths (0.1 is 100), times in thousandths of a day.  ISO date   *)
(* strings are sequences of character codes and are compared the way       *)
(* Python compares str values.                                             *)
(***************************************************************************)
EXTENDS Integers, Sequences, FiniteSets, TLC

VARIABLES
    cards,      \* db["cards"]: the list of card dicts of the store
    today,      \* date.today() as a day count from Epoch
    budget,     \* review requests the model still explores (Unbounded: any)
    req,        \* the last request served by the card routes
    pre,        \* the srs dict the reviewed card held when the request started
    resp,       \* the response to that request ("cards" of /api/due)
    ilIn,       \* argument of interleave_by_theme
    ilOut,      \* value returned by interleave_by_theme
    ilDone,     \* whether interleave_by_theme has returned
    user_profiles,  \* ContextualMemory.user_profiles: user id -> profile
    stored,     \* db["user_profiles"] in db.json
    clock,      \* datetime.now(), in thousandths of a day
    drill,      \* the scripted learner: style and interactions so far
    call,       \* the last call of a ContextualMemory method
    reply,      \* the response to the last /api/advanced request
    threads     \* request threads inside record_learning_interaction

srsVars == <<cards, today, budget, req, pre, resp>>
ilVars == <<ilIn, ilOut, ilDone>>
memVars == <<user_profiles, stored, clock, drill, call, reply, threads>>
vars == <<cards, today, budget, req, pre, resp, ilIn, ilOut, ilDone,
          user_profiles, stored, clock, drill, call, reply, threads>>

-----------------------------------------------------------------------------
(* Bounds of the model *)

MaxReviews == 2
MaxDay == 1
MaxInterval == 20
NumCards == 2
MaxLen == 5
MaxSteps == 1
MaxDrill == 46
MaxQueries == 1
MaxTargets == 3

-----------------------------------------------------------------------------
(* Dates: date.today(), timedelta(days=n), date.isoformat() *)

\* The day on which the model starts; chosen so that due dates cross a
\* month and a year boundary.
Epoch == <<2024, 12, 31>>

IsLeap(y) == (y % 4 = 0 /\ y % 100 # 0) \/ y % 400 = 0

DaysInMonth(y, m) ==
    IF m = 2 THEN (IF IsLeap(y) THEN 29 ELSE 28)
    ELSE IF m \in {4, 6, 9, 11} THEN 30 ELSE 31

NextDay(d) ==
    IF d[3] < DaysInMonth(d[1], d[2]) THEN <<d[1], d[2], d[3] + 1>>
    ELSE IF d[2] < 12 THEN <<d[1], d[2] + 1, 1>>
    ELSE <<d[1] + 1, 1, 1>>

\* date + timedelta(days=n), n >= 0
RECURSIVE DateAdd(_, _)
DateAdd(d, n) ==
    IF d[3] + n <= DaysInMonth(d[1], d[2]) THEN <<d[1], d[2], d[3] + n>>
    ELSE DateAdd(NextDay(<<d[1], d[2], DaysInMonth(d[1], d[2])>>),
                 n - (DaysInMonth(d[1], d[2]) - d[3]) - 1)

\* The date of day number n.
DateOf(n) == DateAdd(Epoch, n)

\* Character codes of "0".."9" and "-".
Digit(k) == 48 + k
Dash == 45

\* date.isoformat(): "YYYY-MM-DD", zero padded.
IsoFormat(d) ==
    << Digit(d[1] \div 1000), Digit((d[1] \div 100) % 10),
       Digit((d[1] \div 10) % 10), Digit(d[1] % 10), Dash,
       Digit(d[2] \div 10), Digit(d[2] % 10), Dash,
       Digit(d[3] \div 10), Digit(d[3] % 10) >>

\* Python's a <= b on two str values: lexicographic by code point, a proper
\* prefix being smaller.
RECURSIVE StrLeq(_, _)
StrLeq(a, b) ==
    IF a = <<>> THEN TRUE
    ELSE IF b = <<>> THEN FALSE
    ELSE IF Head(a) < Head(b) THEN TRUE
    ELSE IF Head(a) > Head(b) THEN FALSE
    ELSE StrLeq(Tail(a), Tail(b))

-----------------------------------------------------------------------------
(* scheduler.py: interleave_by_theme *)

NoTheme == "<none>"
Themes == {"A", "B", "General"}

\* card.get("theme", "General")
ThemeOf(card) == IF card.theme = NoTheme THEN "General" ELSE card.theme

\* Mutant: a card's theme is looked up last-key-first, so the keys end up in
\* reverse order of first appearance.
RECURSIVE BucketKeysPrepend(_, _)
BucketKeysPrepend(cs, keys) ==
    IF cs = <<>> THEN keys
    ELSE BucketKeysPrepend(Tail(cs),
                    IF \E i \in 1..Len(keys) : keys[i] = ThemeOf(Head(cs))
                    THEN keys ELSE <<ThemeOf(Head(cs))>> \o keys)

\* The keys of `buckets` in insertion order: themes by first appearance.
RECURSIVE BucketKeys(_, _)
BucketKeys(cs, keys) ==
    IF cs = <<>> THEN keys
    ELSE BucketKeys(Tail(cs),
                    IF \E i \in 1..Len(keys) : keys[i] = ThemeOf(Head(cs))
                    THEN keys ELSE Append(keys, ThemeOf(Head(cs))))

\* Mutant: buckets[theme] = [card] instead of setdefault(...).append(card).
RECURSIVE FillBucketsOverwrite(_, _)
FillBucketsOverwrite(cs, buckets) ==
    IF cs = <<>> THEN buckets
    ELSE LET t == ThemeOf(Head(cs)) IN
         FillBucketsOverwrite(Tail(cs),
                     [buckets EXCEPT ![t] = <<Head(cs)>>])

\* buckets.setdefault(theme, []).append(card) over all cards.
RECURSIVE FillBuckets(_, _)
FillBuckets(cs, buckets) ==
    IF cs = <<>> THEN buckets
    ELSE LET t == ThemeOf(Head(cs)) IN
         FillBuckets(Tail(cs),
                     [buckets EXCEPT ![t] = Append(@, Head(cs))])

Buckets(cs) ==
    LET keys == BucketKeys(cs, <<>>) IN
    FillBuckets(cs, [t \in {keys[i] : i \in 1..Len(keys)} |-> <<>>])

\* Mutant: "while buckets[theme]" instead of "if buckets[theme]": a bucket is
\* drained when its turn comes.
RECURSIVE RoundDrain(_, _, _, _)
RoundDrain(keys, i, buckets, ordered) ==
    IF i > Len(keys) THEN <<buckets, ordered>>
    ELSE RoundDrain(keys, i + 1, [buckets EXCEPT ![keys[i]] = <<>>],
                    ordered \o buckets[keys[i]])

\* One pass of the for loop over list(buckets.keys()), from key number i on:
\* every non-empty bucket gives its head to `ordered`.
RECURSIVE Round(_, _, _, _)
Round(keys, i, buckets, ordered) ==
    IF i > Len(keys) THEN <<buckets, ordered>>
    ELSE IF buckets[keys[i]] # <<>>
         THEN Round(keys, i + 1,
                    [buckets EXCEPT ![keys[i]] = Tail(@)],
                    Append(ordered, Head(buckets[keys[i]])))
         ELSE Round(keys, i + 1, buckets, ordered)

\* while any(buckets.values()): one round
RECURSIVE Rounds(_, _, _)
Rounds(keys, buckets, ordered) ==
    IF \A t \in DOMAIN buckets : buckets[t] = <<>> THEN ordered
    ELSE LET r == Round(keys, 1, buckets, ordered) IN
         Rounds(keys, r[1], r[2])

interleave_by_theme(cs) == Rounds(BucketKeys(cs, <<>>), Buckets(cs), <<>>)

-----------------------------------------------------------------------------
(* scheduler.py: update_srs and due_cards *)

EF_MIN == 130
EF_MAX == 280

NoSrs == [has |-> FALSE, EF |-> 0, interval |-> 0, reps |-> 0, due |-> <<>>]

\* The srs dict written by /api/save and by update_srs's setdefault.
DefaultSrs(day) ==
    [has |-> TRUE, EF |-> 250, interval |-> 1, reps |-> 0,
     due |-> IsoFormat(DateOf(day))]

\* Python's round(n / d) for n >= 0, d > 0: to nearest, ties to even.
RoundHalfEven(n, d) ==
    LET q == n \div d
        r == n % d
    IN IF 2 * r > d \/ (2 * r = d /\ q % 2 = 1) THEN q + 1 ELSE q

\* Mutant: the constant 0.1 is dropped.
EaseDeltaNoBonus(quality) == 0 - (5 - quality) * (8 + (5 - quality) * 2)

\* 0.1 - (5 - quality) * (0.08 + (5 - quality) * 0.02), in hundredths
EaseDelta(quality) == 10 - (5 - quality) * (8 + (5 - quality) * 2)

Max(a, b) == IF a >= b THEN a ELSE b
Min(a, b) == IF a <= b THEN a ELSE b

\* Mutant: the lower bound is forgotten.
ClampEFNoMin(ef) == Min(EF_MAX, ef)

\* max(EF_MIN, min(EF_MAX, ef))
ClampEF(ef) == Max(EF_MIN, Min(EF_MAX, ef))

\* Mutant: int(...) instead of round(...).
NextIntervalTrunc(reps, interval, ef) ==
    IF reps = 1 THEN 1
    ELSE IF reps = 2 THEN 6
    ELSE (interval * ef) \div 100

\* Mutant: "quality < 2".
FailedBelowTwo(quality) == quality < 2

\* quality < 3
Failed(quality) == quality < 3

\* interval chosen on a successful review, reps already incremented
NextInterval(reps, interval, ef) ==
    IF reps = 1 THEN 1
    ELSE IF reps = 2 THEN 6
    ELSE RoundHalfEven(interval * ef, 100)

\* update_srs(card, quality) on day `day`: the card's new srs dict
update_srs(srs, quality, day) ==
    LET s == IF srs.has THEN srs ELSE DefaultSrs(day)
        fail == Failed(quality)
        reps == IF fail THEN 0 ELSE s.reps + 1
        interval == IF fail THEN 1 ELSE NextInterval(reps, s.interval, s.EF)
        ef == IF fail THEN s.EF ELSE ClampEF(s.EF + EaseDelta(quality))
    IN [has |-> TRUE, EF |-> ef, interval |-> interval, reps |-> reps,
        due |-> IsoFormat(DateOf(day + interval))]

\* Mutant: "<" instead of "<=".
IsDueStrict(card, day) ==
    LET t == IsoFormat(DateOf(day))
        due == IF card.srs.has THEN card.srs.due ELSE t
    IN ~StrLeq(t, due)

\* c.get("srs", {}).get("due", today) <= today
IsDue(card, day) ==
    LET t == IsoFormat(DateOf(day))
        due == IF card.srs.has THEN card.srs.due ELSE t
    IN StrLeq(due, t)

\* Python's [c for c in cs if IsDue(c)]
RECURSIVE DueFilter(_, _)
DueFilter(cs, day) ==
    IF cs = <<>> THEN <<>>
    ELSE IF IsDue(Head(cs), day) THEN <<Head(cs)>> \o DueFilter(Tail(cs), day)
    ELSE DueFilter(Tail(cs), day)

due_cards(cs, day) == interleave_by_theme(DueFilter(cs, day))

-----------------------------------------------------------------------------
(* The card store and its routes *)

Qualities == 0..5
Unbounded == 0 - 1

NoReq == [op |-> "none", cid |-> 0, quality |-> 0, day |-> 0]

IdleInterleave == ilIn = <<>> /\ ilOut = <<>> /\ ilDone = FALSE

NoCall == [op |-> "none"]
NoDrill == [style |-> "none", n |-> 0]
NoReply == [status |-> 0, body |-> <<>>]
NoThreads == <<>>

IdleMemory ==
    /\ user_profiles = <<>>
    /\ stored = <<>>
    /\ clock = 0
    /\ drill = NoDrill
    /\ call = NoCall
    /\ reply = NoReply
    /\ threads = NoThreads

\* The theme the collaborator that created card i gave it (card 2 has none).
StoreTheme(i) == IF i % 3 = 1 THEN "A" ELSE IF i % 3 = 2 THEN NoTheme ELSE "B"

\* A store of n cards.  Cards come from /api/save with the default srs dict,
\* or from a collaborator that stores none.
Stores(n) ==
    {cs \in [1..n -> [id : 1..n, theme : Themes \cup {NoTheme},
                      srs : {NoSrs, DefaultSrs(0)}]] :
        \A i \in 1..n : cs[i].id = i /\ cs[i].theme = StoreTheme(i)}

InitCards(n, b) ==
    /\ cards \in Stores(n)
    /\ today = 0
    /\ budget = b
    /\ req = NoReq
    /\ pre = NoSrs
    /\ resp = <<>>
    /\ IdleInterleave
    /\ IdleMemory

\* One card, reviewed any number of times.
InitSrs == InitCards(1, Unbounded)

\* A store of several cards and a few reviews.
InitDue == InitCards(NumCards, MaxReviews)

\* POST /api/review/<cid>: update_srs on the first card with that id, then
\* save_progress(db).
review_route(cid, quality) ==
    /\ budget # 0
    /\ LET i == CHOOSE k \in DOMAIN cards : cards[k].id = cid
           new == update_srs(cards[i].srs, quality, today)
       IN /\ new.interval <= MaxInterval
          /\ cards' = [cards EXCEPT ![i].srs = new]
          /\ pre' = cards[i].srs
    /\ budget' = IF budget = Unbounded THEN budget ELSE budget - 1
    /\ req' = [op |-> "review", cid |-> cid, quality |-> quality, day |-> today]
    /\ resp' = <<>>
    /\ UNCHANGED <<today, ilVars, memVars>>

\* GET /api/due
due_route ==
    /\ resp' = due_cards(cards, today)
    /\ req' = [op |-> "due", cid |-> 0, quality |-> 0, day |-> today]
    /\ UNCHANGED <<cards, today, budget, pre, ilVars, memVars>>

\* Midnight passes.
NextDayTick ==
    /\ today < MaxDay
    /\ today' = today + 1
    /\ UNCHANGED <<cards, budget, req, pre, resp, ilVars, memVars>>

NextSrs ==
    \/ \E cid \in {cards[k].id : k \in DOMAIN cards}, q \in Qualities :
           review_route(cid, q)
    \/ due_route
    \/ NextDayTick

SpecSrs == InitSrs /\ [][NextSrs]_vars

SpecDue == InitDue /\ [][NextSrs]_vars

-----------------------------------------------------------------------------
(* interleave_by_theme applied to every short list of cards *)

\* The cards a list is drawn from: two cards per theme (equal cards may
\* repeat in a list), cards without a theme, and one that names "General".
IlCards ==
    [id : {1, 2}, theme : {"A", "B", NoTheme}] \cup {[id |-> 1, theme |-> "General"]}

IdleCards ==
    /\ cards = <<>>
    /\ today = 0
    /\ budget = 0
    /\ req = NoReq
    /\ pre = NoSrs
    /\ resp = <<>>

InitInterleave ==
    /\ \E n \in 0..MaxLen : ilIn \in [1..n -> IlCards]
    /\ ilOut = <<>>
    /\ ilDone = FALSE
    /\ IdleCards
    /\ IdleMemory

Interleave ==
    /\ ~ilDone
    /\ ilOut' = interleave_by_theme(ilIn)
    /\ ilDone' = TRUE
    /\ UNCHANGED <<ilIn, srsVars, memVars>>

NextInterleave == Interleave

SpecInterleave == InitInterleave /\ [][NextInterleave]_vars

-----------------------------------------------------------------------------
(* contextual_memory.py: decimal arithmetic *)

\* a * b for two decimals in thousandths, rounded to the nearest thousandth
Mul(a, b) == (a * b + 500) \div 1000

\* a / b for two decimals in thousandths, b > 0
Div(a, b) == (a * 1000 + b \div 2) \div b

\* Largest interval factor the model tells apart: 2000.0.  Every product
\* that reaches it ends above the 365-day ceiling of the interval.
Saturated == 2000000

\* Mul, saturating
MulSat(a, b) ==
    IF b > 0 /\ a > 2000000000 \div b THEN Saturated
    ELSE Min(Saturated, Mul(a, b))

\* 1.3 ** n, saturating
RECURSIVE Pow13(_)
Pow13(n) ==
    IF n = 0 THEN 1000
    ELSE LET h == Pow13(n \div 2)
             sq == MulSat(h, h)
         IN IF n % 2 = 1 THEN MulSat(sq, 1300) ELSE sq

\* 1.5 ** n
RECURSIVE Pow15(_)
Pow15(n) == IF n = 0 THEN 1000 ELSE MulSat(Pow15(n - 1), 1500)

\* 2 ** n
RECURSIVE Pow2(_)
Pow2(n) == IF n = 0 THEN 1 ELSE 2 * Pow2(n - 1)

-----------------------------------------------------------------------------
(* contextual_memory.py: ConceptMemory and its update *)

Users == {"u1", "u2"}
ConceptIds == {"c1", "c2"}

\* ConceptMemory.accuracy_rate()
accuracy_rate(m) ==
    IF m.total_attempts = 0 THEN 0
    ELSE (m.correct_answers * 1000 + m.total_attempts \div 2) \div m.total_attempts

\* _update_memory_strength
update_memory_strength(m, is_correct, confidence) ==
    IF is_correct
    THEN Min(1000, m.memory_strength + Mul(Mul(200, 1000 - m.memory_strength), confidence))
    ELSE Max(0, m.memory_strength - Mul(150, confidence))

\* accuracy >= num / den, compared exactly
AccuracyAtLeast(m, num, den) ==
    m.total_attempts > 0 /\ m.correct_answers * den >= num * m.total_attempts

\* Mutant: a concept that has reached EXPERT stays there.
update_knowledge_state_sticky(m) ==
    IF m.knowledge_state = "EXPERT" THEN "EXPERT"
    ELSE IF m.total_attempts < 3 THEN "LEARNING"
    ELSE IF AccuracyAtLeast(m, 9, 10) /\ m.memory_strength >= 800 /\ m.total_attempts >= 10
         THEN "EXPERT"
    ELSE IF AccuracyAtLeast(m, 8, 10) /\ m.memory_strength >= 700 /\ m.total_attempts >= 5
         THEN "MASTERED"
    ELSE IF AccuracyAtLeast(m, 6, 10) /\ m.memory_strength >= 500
         THEN "PRACTICED"
    ELSE "LEARNING"

\* _update_knowledge_state
update_knowledge_state(m) ==
    IF m.total_attempts < 3 THEN "LEARNING"
    ELSE IF AccuracyAtLeast(m, 9, 10) /\ m.memory_strength >= 800 /\ m.total_attempts >= 10
         THEN "EXPERT"
    ELSE IF AccuracyAtLeast(m, 8, 10) /\ m.memory_strength >= 700 /\ m.total_attempts >= 5
         THEN "MASTERED"
    ELSE IF AccuracyAtLeast(m, 6, 10) /\ m.memory_strength >= 500
         THEN "PRACTICED"
    ELSE "LEARNING"

\* timedelta.days of (now - then), now >= then
DaysBetween(then, now) == (now - then) \div 1000

\* _update_learning_phase
update_learning_phase(m, now) ==
    IF m.review_count <= 2 THEN "ACQUISITION"
    ELSE IF DaysBetween(m.first_exposure, now) <= 7 THEN "CONSOLIDATION"
    ELSE IF m.knowledge_state \in {"MASTERED", "EXPERT"} THEN "TRANSFER"
    ELSE "RETENTION"

\* phase_multipliers
PhaseMultiplier(phase) ==
    CASE phase = "ACQUISITION" -> 500
      [] phase = "CONSOLIDATION" -> 1000
      [] phase = "RETENTION" -> 1500
      [] phase = "TRANSFER" -> 2000

\* The interval of _calculate_next_review_enhanced, in thousandths of a day
ReviewInterval(m, is_correct) ==
    LET strength_multiplier == 1000 + m.memory_strength * 2
        accuracy_multiplier == 1000 + accuracy_rate(m)
        phase_multiplier == PhaseMultiplier(m.learning_phase)
        difficulty_multiplier == Div(1000, m.difficulty_adjustment)
        interval ==
            IF is_correct
            THEN MulSat(Mul(Mul(Mul(Mul(1000, strength_multiplier),
                                    accuracy_multiplier),
                                phase_multiplier),
                            difficulty_multiplier),
                        Pow13(m.review_count))
            ELSE Mul(1000, 500)
    IN Max(100, Min(365000, interval))

\* Mutant: the interval is added to the stored last_review.
calculate_next_review_enhanced_stale(m, is_correct, now) ==
    m.last_review + ReviewInterval(m, is_correct)

\* _calculate_next_review_enhanced
calculate_next_review_enhanced(m, is_correct, now) ==
    now + ReviewInterval(m, is_correct)

\* _calculate_next_review
calculate_next_review(current_time, memory_strength, attempts) ==
    LET strength_multiplier == 1000 + memory_strength * 3
        interval == MulSat(Mul(1000, strength_multiplier), Pow15(attempts))
    IN current_time + Max(100, Min(30000, interval))

\* _update_confidence
update_confidence(current_confidence, reported_confidence, is_correct) ==
    LET new_confidence ==
            IF is_correct
            THEN Mul(300, reported_confidence) + Mul(700, current_confidence)
            ELSE Max(100, current_confidence - Mul(200, reported_confidence))
    IN Min(1000, new_confidence)

\* Mutant: the decay rate has no ceiling.
NewDecayNoCeiling(decay_rate, is_correct) ==
    IF is_correct THEN Max(10, Mul(decay_rate, 950))
    ELSE Mul(decay_rate, 1100)

\* _update_forgetting_curve: decay_rate
NewDecay(decay_rate, is_correct) ==
    IF is_correct THEN Max(10, Mul(decay_rate, 950))
    ELSE Min(500, Mul(decay_rate, 1100))

\* _update_forgetting_curve: difficulty_adjustment; the comparisons
\* response_time > avg_time * 1.5 and response_time < avg_time * 0.7 exactly
NewDifficulty(difficulty_adjustment, avg_time, response_time) ==
    IF 10 * response_time > 15 * avg_time
    THEN Min(2000, Mul(difficulty_adjustment, 1100))
    ELSE IF 10 * response_time < 7 * avg_time
    THEN Max(500, Mul(difficulty_adjustment, 950))
    ELSE difficulty_adjustment

\* The ConceptMemory built for a concept met for the first time
NewMemory(concept_id, concept_name, response_time, confidence, context, now) ==
    [concept_id |-> concept_id,
     concept_name |-> concept_name,
     knowledge_state |-> "LEARNING",
     learning_phase |-> "ACQUISITION",
     memory_strength |-> 100,
     confidence_level |-> confidence,
     first_exposure |-> now,
     last_review |-> now,
     next_review |-> calculate_next_review(now, 100, 1),
     review_count |-> 0,
     correct_answers |-> 0,
     total_attempts |-> 0,
     average_response_time |-> response_time,
     decay_rate |-> 100,
     difficulty_adjustment |-> 1000,
     prerequisites |-> <<>>,
     dependents |-> <<>>,
     learning_contexts |-> IF context # "" THEN <<context>> ELSE <<>>,
     associated_materials |-> <<>>]

\* The least n for which the float power 1.3 ** n raises OverflowError:
\* 1.3 ** 2705 = 1.6e308 is the last one below the largest double.
PowOverflow == 2706

\* The call raises inside _calculate_next_review_enhanced: the interval of a
\* right answer is computed with 1.3 ** memory.review_count.
InteractionRaises(m0, is_correct) == is_correct /\ m0.review_count >= PowOverflow

\* The body of record_learning_interaction on the memory m0, statement by
\* statement; when the computation of the next review raises, the
\* statements before it have taken effect and the ones after it have not.
UpdatedMemory(m0, is_correct, response_time, confidence, context, now) ==
    LET m1 == [m0 EXCEPT
                 !.total_attempts = @ + 1,
                 !.correct_answers = IF is_correct THEN @ + 1 ELSE @]
        m2 == [m1 EXCEPT
                 !.average_response_time = (3 * response_time + 7 * @ + 5) \div 10]
        m3 == [m2 EXCEPT
                 !.memory_strength = update_memory_strength(m2, is_correct, confidence)]
        m4 == [m3 EXCEPT !.knowledge_state = update_knowledge_state(m3)]
        m5 == [m4 EXCEPT !.learning_phase = update_learning_phase(m4, now)]
        m6 == [m5 EXCEPT
                 !.next_review = calculate_next_review_enhanced(m5, is_correct, now)]
        m7 == [m6 EXCEPT !.last_review = now, !.review_count = @ + 1]
        m8 == [m7 EXCEPT
                 !.confidence_level = update_confidence(@, confidence, is_correct)]
        m9 == [m8 EXCEPT
                 !.learning_contexts =
                     IF context # "" /\ \A i \in DOMAIN @ : @[i] # context
                     THEN Append(@, context) ELSE @]
    IN IF InteractionRaises(m0, is_correct) THEN m5
       ELSE [m9 EXCEPT
               !.decay_rate = NewDecay(@, is_correct),
               !.difficulty_adjustment =
                   NewDifficulty(@, m9.average_response_time, response_time)]

\* get_or_create_profile: the profile of a user seen for the first time
NewProfile(user_id) ==
    [user_id |-> user_id,
     optimal_session_length |-> 25,
     current_cognitive_load |-> 500,
     concept_memories |-> <<>>,
     learning_history |-> <<>>]

\* f with key k set to v (a dict assignment)
Put(f, k, v) == [x \in DOMAIN f \cup {k} |-> IF x = k THEN v ELSE f[x]]

\* datetime.isoformat(), read back by datetime.fromisoformat()
IsoTime(t) == <<"iso", t>>

\* The value of a KnowledgeState or LearningPhase member
EnumValue(name) ==
    CASE name = "UNKNOWN" -> "unknown"
      [] name = "LEARNING" -> "learning"
      [] name = "PRACTICED" -> "practiced"
      [] name = "MASTERED" -> "mastered"
      [] name = "EXPERT" -> "expert"
      [] name = "ACQUISITION" -> "acquisition"
      [] name = "CONSOLIDATION" -> "consolidation"
      [] name = "RETENTION" -> "retention"
      [] name = "TRANSFER" -> "transfer"

\* _serialize_profile
serialize_profile(profile) ==
    [profile EXCEPT
       !.concept_memories =
           [c \in DOMAIN @ |->
              [@[c] EXCEPT
                 !.first_exposure = IsoTime(@),
                 !.last_review = IsoTime(@),
                 !.next_review = IsoTime(@),
                 !.knowledge_state = EnumValue(@),
                 !.learning_phase = EnumValue(@)]],
       !.learning_history =
           [i \in DOMAIN @ |-> [@[i] EXCEPT !.start_time = IsoTime(@)]]]

\* _save_profiles when load_db and save_db succeed: every profile held in
\* memory, serialized, replaces db["user_profiles"]
SavedProfiles(profiles) == [u \in DOMAIN profiles |-> serialize_profile(profiles[u])]

\* Mutant: the concept memory is built anew on every call.
interaction_profiles_anew(user_id, concept_id, concept_name, is_correct, response_time, confidence, context, now) ==
    LET profile == IF user_id \in DOMAIN user_profiles
                   THEN user_profiles[user_id] ELSE NewProfile(user_id)
        m0 == NewMemory(concept_id, concept_name, response_time,
                        confidence, context, now)
        m == UpdatedMemory(m0, is_correct, response_time, confidence, context, now)
    IN Put(user_profiles, user_id,
           [profile EXCEPT !.concept_memories = Put(@, concept_id, m)])

\* user_profiles after lines 274-339 of record_learning_interaction: the
\* profile and the concept memory are created if they are missing, and the
\* memory is updated
interaction_profiles(user_id, concept_id, concept_name, is_correct, response_time, confidence, context, now) ==
    LET profile == IF user_id \in DOMAIN user_profiles
                   THEN user_profiles[user_id] ELSE NewProfile(user_id)
        m0 == IF concept_id \in DOMAIN profile.concept_memories
              THEN profile.concept_memories[concept_id]
              ELSE NewMemory(concept_id, concept_name, response_time,
                             confidence, context, now)
        m == UpdatedMemory(m0, is_correct, response_time, confidence, context, now)
    IN Put(user_profiles, user_id,
           [profile EXCEPT !.concept_memories = Put(@, concept_id, m)])

\* The memory a call for user_id and concept_id finds, if there is one
FoundMemory(user_id, concept_id) ==
    IF user_id \in DOMAIN user_profiles
       /\ concept_id \in DOMAIN user_profiles[user_id].concept_memories
    THEN user_profiles[user_id].concept_memories[concept_id]
    ELSE [review_count |-> 0]

\* record_learning_interaction(user_id, concept_id, concept_name, is_correct,
\* response_time, confidence, context) at time `now`; save_ok tells whether
\* _save_profiles wrote the store or caught an exception.  A call that
\* raises does not reach _save_profiles.
record_learning_interaction(user_id, concept_id, concept_name, is_correct, response_time, confidence, context, now, save_ok) ==
    LET profiles == interaction_profiles(user_id, concept_id, concept_name,
                        is_correct, response_time, confidence, context, now)
        raised == InteractionRaises(FoundMemory(user_id, concept_id), is_correct)
    IN /\ user_profiles' = profiles
       /\ stored' = IF save_ok /\ ~raised THEN SavedProfiles(profiles) ELSE stored
       /\ clock' = now
       /\ call' = [op |-> "record", user_id |-> user_id, concept_id |-> concept_id,
                   is_correct |-> is_correct, response_time |-> response_time,
                   confidence |-> confidence, now |-> now, save_ok |-> save_ok,
                   raised |-> raised]

\* POST /api/advanced/learning_interaction: a request without concept_id
\* or concept_name is answered 400; otherwise record_learning_interaction
\* runs and, unless it raises, the answer is {"success": true}; if it
\* raises, the answer is 500 with the text of the exception.  An exception
\* inside _save_profiles is caught there and never reaches the route.
learning_interaction_route(user_id, concept_id, concept_name, is_correct, response_time, confidence, context, now, save_ok) ==
    IF concept_id = "" \/ concept_name = ""
    THEN /\ reply' = [status |-> 400, body |-> "concept_id and concept_name required"]
         /\ call' = [op |-> "rejected", user_id |-> user_id, concept_id |-> concept_id,
                     confidence |-> confidence, now |-> now]
         /\ clock' = now
         /\ UNCHANGED <<user_profiles, stored>>
    ELSE /\ record_learning_interaction(user_id, concept_id, concept_name,
               is_correct, response_time, confidence, context, now, save_ok)
         /\ reply' = IF InteractionRaises(FoundMemory(user_id, concept_id), is_correct)
                     THEN [status |-> 500, body |-> "Numerical result out of range"]
                     ELSE [status |-> 200, body |-> "success"]

-----------------------------------------------------------------------------
(* Learners *)

Confidences == {0, 500, 1000}
\* An answer given at once, right after the previous call, or one given
\* after 5 s, eight days later: <<response time, time since the last call>>.
Paces == {<<0, 0>>, <<5000, 8000>>}
Targets == {<<"u1", "c1">>, <<"u1", "c2">>, <<"u2", "c1">>}
ConceptName(c) == IF c = "c1" THEN "Alpha" ELSE "Beta"

\* The scripted learner "struggling" answers wrong, sure of itself, twice as
\* slowly each time up to 512 s; "fluent" answers right, sure of itself, at
\* once after a first answer of 60 s.  One interaction a day.
DrillCorrect(style) == style = "fluent"
DrillResponseTime(style, n) ==
    IF style = "fluent" THEN (IF n = 0 THEN 60000 ELSE 0)
    ELSE 1000 * Pow2(Min(n, 9))

InitMem ==
    /\ user_profiles = <<>>
    /\ stored = <<>>
    /\ clock = 0
    /\ drill = NoDrill
    /\ call = NoCall
    /\ reply = NoReply
    /\ threads = NoThreads
    /\ budget = MaxSteps
    /\ cards = <<>>
    /\ today = 0
    /\ req = NoReq
    /\ pre = NoSrs
    /\ resp = <<>>
    /\ IdleInterleave

\* One more interaction of the scripted learner u1 with concept c1.
DrillInteraction(style) ==
    /\ budget = MaxSteps
    /\ drill.n < MaxDrill
    /\ drill.style \in {"none", style}
    /\ learning_interaction_route("u1", "c1", ConceptName("c1"),
           DrillCorrect(style), DrillResponseTime(style, drill.n), 1000, "",
           IF drill.n = 0 THEN clock ELSE clock + 1000, TRUE)
    /\ drill' = [style |-> style, n |-> drill.n + 1]
    /\ UNCHANGED <<budget, cards, today, req, pre, resp, ilVars, threads>>

\* One interaction with any answer, a while after the previous one.
FreeInteraction(u, c, is_correct, response_time, confidence, gap, save_ok) ==
    /\ budget > 0
    /\ budget' = budget - 1
    /\ learning_interaction_route(u, c, ConceptName(c), is_correct,
           response_time, confidence, "quiz", clock + gap, save_ok)
    /\ UNCHANGED <<drill, cards, today, req, pre, resp, ilVars, threads>>

NextMem ==
    \/ \E style \in {"struggling", "fluent"} : DrillInteraction(style)
    \/ \E t \in Targets, ok \in BOOLEAN, pace \in Paces,
          conf \in Confidences, save_ok \in BOOLEAN :
           FreeInteraction(t[1], t[2], ok, pace[1], conf, pace[2], save_ok)

SpecMem == InitMem /\ [][NextMem]_vars

-----------------------------------------------------------------------------
(* contextual_memory.py: get_due_concepts *)

\* The orders in which a dict with the key set S can hand out its keys.  A
\* dict is modelled by a function, which does not record the insertion
\* order; an operation that iterates over one is explored for every order.
KeyOrders(S) ==
    {o \in [1..Cardinality(S) -> S] : \A i, j \in DOMAIN o : o[i] = o[j] => i = j}

\* get_or_create_profile: user_profiles afterwards
WithProfile(profiles, user_id) ==
    IF user_id \in DOMAIN profiles THEN profiles
    ELSE Put(profiles, user_id, NewProfile(user_id))

\* Mutant: every concept memory counts as due.
is_due_for_review_always(m, now) == TRUE

\* ConceptMemory.is_due_for_review
is_due_for_review(m, now) == now >= m.next_review

\* phase_weights of priority_score, in thousandths
PhaseWeight(phase) ==
    CASE phase = "ACQUISITION" -> 1000
      [] phase = "CONSOLIDATION" -> 800
      [] phase = "RETENTION" -> 600
      [] phase = "TRANSFER" -> 400

\* priority_score, in ten-thousandths
priority_score(m, now) ==
    LET days_overdue == DaysBetween(m.next_review, now)
    IN Min(10, Max(0, days_overdue)) * 3000
       + (1000 - m.memory_strength) * 4
       + PhaseWeight(m.learning_phase) * 3

\* x put into the sorted list s behind every element that sorts no later
RECURSIVE InsertByKey(_, _, _, _)
InsertByKey(x, s, key, reverse) ==
    IF s = <<>> THEN <<x>>
    ELSE IF (IF reverse THEN key[Head(s)] >= key[x] ELSE key[Head(s)] <= key[x])
         THEN <<Head(s)>> \o InsertByKey(x, Tail(s), key, reverse)
         ELSE <<x>> \o s

\* Mutant: the sort ignores reverse.
RECURSIVE SortByKeyAscending(_, _, _)
SortByKeyAscending(seq, key, reverse) ==
    IF seq = <<>> THEN <<>>
    ELSE InsertByKey(seq[Len(seq)],
                     SortByKeyAscending(SubSeq(seq, 1, Len(seq) - 1), key, reverse),
                     key, FALSE)

\* list.sort(key=..., reverse=...): a stable sort, also when reversed
RECURSIVE SortByKey(_, _, _)
SortByKey(seq, key, reverse) ==
    IF seq = <<>> THEN <<>>
    ELSE InsertByKey(seq[Len(seq)],
                     SortByKey(SubSeq(seq, 1, Len(seq) - 1), key, reverse),
                     key, reverse)

\* seq[:k], for any integer k
SliceTo(seq, k) ==
    IF k >= 0 THEN SubSeq(seq, 1, Min(k, Len(seq)))
    ELSE SubSeq(seq, 1, Max(0, Len(seq) + k))

\* The elements of seq that are in S, in the order of seq
RECURSIVE SelectIn(_, _)
SelectIn(seq, S) ==
    IF seq = <<>> THEN <<>>
    ELSE IF Head(seq) \in S THEN <<Head(seq)>> \o SelectIn(Tail(seq), S)
    ELSE SelectIn(Tail(seq), S)

\* get_due_concepts(user_id, max_count) at time `now`, the values of
\* profile.concept_memories coming in the order `order`: the ids of the
\* concepts returned
get_due_concepts(profile, max_count, now, order) ==
    LET mem == profile.concept_memories
        due == {c \in DOMAIN mem : is_due_for_review(mem[c], now)}
        due_concepts == SelectIn(order, due)
        key == [c \in due |-> priority_score(mem[c], now)]
    IN SliceTo(SortByKey(due_concepts, key, TRUE), max_count)

\* GET /api/advanced/due_concepts
due_concepts_route(user_id, max_count, now, order) ==
    LET profiles == WithProfile(user_profiles, user_id)
        mem == profiles[user_id].concept_memories
        result == get_due_concepts(profiles[user_id], max_count, now, order)
    IN /\ order \in KeyOrders(DOMAIN mem)
       /\ user_profiles' = profiles
       /\ clock' = now
       /\ call' = [op |-> "due", user_id |-> user_id, max_count |-> max_count,
                   now |-> now, result |-> result]
       /\ reply' = [status |-> 200,
                    body |-> [i \in DOMAIN result |->
                       LET m == mem[result[i]] IN
                       [concept_id |-> m.concept_id,
                        concept_name |-> m.concept_name,
                        knowledge_state |-> EnumValue(m.knowledge_state),
                        memory_strength |-> m.memory_strength,
                        confidence_level |-> m.confidence_level,
                        accuracy_rate |-> accuracy_rate(m),
                        days_overdue |-> DaysBetween(m.next_review, now),
                        review_count |-> m.review_count]]]
       /\ UNCHANGED stored

-----------------------------------------------------------------------------
(* contextual_memory.py: generate_learning_analytics *)

\* sum(f[c] for c in S)
RECURSIVE SumOver(_, _)
SumOver(f, S) ==
    IF S = {} THEN 0
    ELSE LET c == CHOOSE x \in S : TRUE IN f[c] + SumOver(f, S \ {c})

\* The result for a profile without concept memories
NoData == [error |-> "No learning data available"]

\* Mutant: the check for an empty profile is missing.
HasNoData_never(profile) == FALSE

\* total_concepts == 0
HasNoData(profile) == Cardinality(DOMAIN profile.concept_memories) = 0

\* The report of generate_learning_analytics for a profile with concept
\* memories; ratios are rounded to thousandths as round(x, 3) does
LearningReport(profile, user_id, now, order) ==
    LET mem == profile.concept_memories
        ids == DOMAIN mem
        total_concepts == Cardinality(ids)
        state_counts ==
            [v \in {EnumValue(mem[c].knowledge_state) : c \in ids} |->
                Cardinality({c \in ids : EnumValue(mem[c].knowledge_state) = v})]
        total_attempts == SumOver([c \in ids |-> mem[c].total_attempts], ids)
        total_correct == SumOver([c \in ids |-> mem[c].correct_answers], ids)
        overall_accuracy == RoundHalfEven(total_correct * 1000, Max(total_attempts, 1))
        mastered == {c \in ids : mem[c].knowledge_state \in {"MASTERED", "EXPERT"}}
        learning_velocity ==
            IF profile.learning_history # <<>>
            THEN RoundHalfEven(Cardinality(mastered) * 1000,
                     Max(DaysBetween(profile.learning_history[1].start_time, now), 1))
            ELSE 0
        avg_strength ==
            IF total_concepts > 0
            THEN RoundHalfEven(SumOver([c \in ids |-> mem[c].memory_strength], ids),
                               total_concepts)
            ELSE 0
        weak == {c \in ids : mem[c].memory_strength < 500
                             \/ ~AccuracyAtLeast(mem[c], 6, 10)}
        strength == [c \in ids |-> mem[c].memory_strength]
        weak_concepts == SortByKey(SelectIn(order, weak), strength, FALSE)
        strong_concepts == SortByKey(SelectIn(order, mastered), strength, TRUE)
    IN [user_id |-> user_id,
        summary |->
            [total_concepts |-> total_concepts,
             overall_accuracy |-> overall_accuracy,
             average_memory_strength |-> avg_strength,
             learning_velocity |-> learning_velocity,
             total_study_sessions |-> Len(profile.learning_history)],
        knowledge_distribution |-> state_counts,
        performance |->
            [total_attempts |-> total_attempts,
             correct_answers |-> total_correct,
             accuracy_percentage |-> overall_accuracy],
        recommendations |->
            [weak_areas |->
                 [i \in DOMAIN SliceTo(weak_concepts, 5) |->
                     LET m == mem[weak_concepts[i]] IN
                     [concept_id |-> m.concept_id,
                      concept_name |-> m.concept_name,
                      memory_strength |-> m.memory_strength,
                      accuracy |-> accuracy_rate(m),
                      days_since_review |-> DaysBetween(m.last_review, now)]],
             strong_areas |->
                 [i \in DOMAIN SliceTo(strong_concepts, 5) |->
                     LET m == mem[strong_concepts[i]] IN
                     [concept_id |-> m.concept_id,
                      concept_name |-> m.concept_name,
                      memory_strength |-> m.memory_strength,
                      accuracy |-> accuracy_rate(m),
                      knowledge_state |-> EnumValue(m.knowledge_state)]],
             due_for_review |->
                 Cardinality({c \in ids : is_due_for_review(mem[c], now)}),
             suggested_session_length |-> profile.optimal_session_length]]

\* generate_learning_analytics
generate_learning_analytics(profile, user_id, now, order) ==
    IF HasNoData(profile) THEN NoData
    ELSE LearningReport(profile, user_id, now, order)

\* GET /api/advanced/learning_analytics
learning_analytics_route(user_id, now, order) ==
    LET profiles == WithProfile(user_profiles, user_id)
        analytics == generate_learning_analytics(profiles[user_id], user_id, now, order)
    IN /\ order \in KeyOrders(DOMAIN profiles[user_id].concept_memories)
       /\ user_profiles' = profiles
       /\ clock' = now
       /\ call' = [op |-> "analytics", user_id |-> user_id, now |-> now,
                   result |-> analytics]
       /\ reply' = [status |-> 200, body |-> analytics]
       /\ UNCHANGED stored

-----------------------------------------------------------------------------
(* A learner who studies three concepts and then asks what is due *)

\* The concepts of the lesson, in the order the learner meets them, one
\* interaction a day.  c1 and c2 are answered five times, over nine days.
Lesson == <<"c1", "c2", "c1", "c2", "c3", "c1", "c2", "c1", "c2", "c1", "c2", "c3">>

\* The learner "keen" knows c1 and c3 and fails c2, "lost" knows only c2.
LessonCorrect(style, c) == IF style = "keen" THEN c # "c2" ELSE c = "c2"

\* max_count of a request: the default, small counts, none, and a negative one
MaxCounts == {0 - 1, 0, 1, 2, 10}

\* Time between the previous call and a query: none, a day and a half,
\* twelve days
QueryGaps == {0, 1500, 12000}

InitQuery ==
    /\ user_profiles = <<>>
    /\ stored = <<>>
    /\ clock = 0
    /\ drill = NoDrill
    /\ call = NoCall
    /\ reply = NoReply
    /\ threads = NoThreads
    /\ budget = MaxQueries
    /\ cards = <<>>
    /\ today = 0
    /\ req = NoReq
    /\ pre = NoSrs
    /\ resp = <<>>
    /\ IdleInterleave

\* The next interaction of the lesson, by learner u1.
LessonInteraction(style) ==
    /\ budget = MaxQueries
    /\ drill.n < Len(Lesson)
    /\ drill.style \in {"none", style}
    /\ LET c == Lesson[drill.n + 1] IN
       learning_interaction_route("u1", c, ConceptName(c), LessonCorrect(style, c),
           5000, 1000, "lesson", IF drill.n = 0 THEN clock ELSE clock + 1000, TRUE)
    /\ drill' = [style |-> style, n |-> drill.n + 1]
    /\ UNCHANGED <<budget, cards, today, req, pre, resp, ilVars, threads>>

DueRequest(u, max_count, gap, order) ==
    /\ budget > 0
    /\ budget' = budget - 1
    /\ due_concepts_route(u, max_count, clock + gap, order)
    /\ UNCHANGED <<drill, cards, today, req, pre, resp, ilVars, threads>>

AnalyticsRequest(u, gap, order) ==
    /\ budget > 0
    /\ budget' = budget - 1
    /\ learning_analytics_route(u, clock + gap, order)
    /\ UNCHANGED <<drill, cards, today, req, pre, resp, ilVars, threads>>

NextQuery ==
    \/ \E style \in {"keen", "lost"} : LessonInteraction(style)
    \/ \E u \in Users, k \in MaxCounts, gap \in QueryGaps :
       \E order \in KeyOrders(DOMAIN WithProfile(user_profiles, u)[u].concept_memories) :
           DueRequest(u, k, gap, order)
    \/ \E u \in Users, gap \in QueryGaps :
       \E order \in KeyOrders(DOMAIN WithProfile(user_profiles, u)[u].concept_memories) :
           AnalyticsRequest(u, gap, order)

SpecQuery == InitQuery /\ [][NextQuery]_vars

-----------------------------------------------------------------------------
(* contextual_memory.py: _load_profiles and _deserialize_profile *)

\* The values of the members of KnowledgeState and of LearningPhase
KnowledgeStateValues == {"unknown", "learning", "practiced", "mastered", "expert"}
LearningPhaseValues == {"acquisition", "consolidation", "retention", "transfer"}

\* KnowledgeState(value), LearningPhase(value): the member with that value
EnumMember(value) ==
    CHOOSE name \in {"UNKNOWN", "LEARNING", "PRACTICED", "MASTERED", "EXPERT",
                     "ACQUISITION", "CONSOLIDATION", "RETENTION", "TRANSFER"} :
        EnumValue(name) = value

\* Whether datetime.fromisoformat accepts the string
IsIsoTime(x) == x[1] = "iso"

\* datetime.fromisoformat
FromIsoTime(x) == x[2]

\* The fields of ConceptMemory, each read with memory_data[...]
MemoryFields ==
    {"concept_id", "concept_name", "knowledge_state", "learning_phase",
     "memory_strength", "confidence_level", "first_exposure", "last_review",
     "next_review", "review_count", "correct_answers", "total_attempts",
     "average_response_time", "decay_rate", "difficulty_adjustment",
     "prerequisites", "dependents", "learning_contexts", "associated_materials"}

\* Whether ConceptMemory(...) can be built from memory_data without a
\* KeyError or a ValueError
MemoryLoads(d) ==
    /\ MemoryFields \subseteq DOMAIN d
    /\ d.knowledge_state \in KnowledgeStateValues
    /\ d.learning_phase \in LearningPhaseValues
    /\ IsIsoTime(d.first_exposure)
    /\ IsIsoTime(d.last_review)
    /\ IsIsoTime(d.next_review)

\* The ConceptMemory built from memory_data
deserialize_memory(d) ==
    [f \in MemoryFields |->
        CASE f \in {"knowledge_state", "learning_phase"} -> EnumMember(d[f])
          [] f \in {"first_exposure", "last_review", "next_review"} -> FromIsoTime(d[f])
          [] OTHER -> d[f]]

\* data.get(key, default)
Get(data, key, default) == IF key \in DOMAIN data THEN data[key] ELSE default

\* Whether LearningSession(...) can be built from session_data
SessionLoads(d) ==
    /\ {"session_id", "start_time", "end_time"} \subseteq DOMAIN d
    /\ IsIsoTime(d.start_time)

\* Whether _deserialize_profile returns, rather than raises
ProfileLoads(data) ==
    /\ "user_id" \in DOMAIN data
    /\ \A c \in DOMAIN Get(data, "concept_memories", <<>>) :
           MemoryLoads(data.concept_memories[c])
    /\ \A i \in DOMAIN Get(data, "learning_history", <<>>) :
           SessionLoads(data.learning_history[i])

\* _deserialize_profile, when it returns
deserialize_profile(data) ==
    [user_id |-> data.user_id,
     optimal_session_length |-> Get(data, "optimal_session_length", 25),
     current_cognitive_load |-> Get(data, "current_cognitive_load", 500),
     concept_memories |->
         [c \in DOMAIN Get(data, "concept_memories", <<>>) |->
             deserialize_memory(data.concept_memories[c])],
     learning_history |->
         [i \in DOMAIN Get(data, "learning_history", <<>>) |->
             [data.learning_history[i] EXCEPT !.start_time = FromIsoTime(@)]]]

\* The loop of _load_profiles over db["user_profiles"], whose keys come in
\* the order `order`: an exception raised for one profile is caught outside
\* the loop, so that profile and all after it are not loaded.
RECURSIVE LoadLoop(_, _, _)
LoadLoop(profiles_data, order, loaded) ==
    IF order = <<>> THEN loaded
    ELSE IF ~ProfileLoads(profiles_data[Head(order)]) THEN loaded
    ELSE LoadLoop(profiles_data, Tail(order),
                  Put(loaded, Head(order),
                      deserialize_profile(profiles_data[Head(order)])))

\* ContextualMemory(): user_profiles after _load_profiles; readable tells
\* whether load_db could read db.json
load_profiles(profiles_data, order, readable) ==
    IF readable THEN LoadLoop(profiles_data, order, <<>>) ELSE <<>>

-----------------------------------------------------------------------------
(* A process started on a db.json that holds profiles, damaged or not *)

\* f without the key k
Drop(f, k) == [x \in DOMAIN f \ {k} |-> f[x]]

\* The profile of a learner who answered c1 once and has settings of their
\* own, as _save_profiles writes it
PersistedProfile(u) ==
    serialize_profile(
        [NewProfile(u) EXCEPT
           !.optimal_session_length = 45,
           !.current_cognitive_load = 800,
           !.concept_memories =
               Put(<<>>, "c1",
                   UpdatedMemory(NewMemory("c1", ConceptName("c1"), 5000, 1000, "quiz", 0),
                                 TRUE, 5000, 1000, "quiz", 0))])

\* What an older version, an editor or an interrupted write can leave of it
Damages ==
    {"intact", "session", "no_session_length", "no_cognitive_load", "no_memories",
     "no_history", "no_user_id", "no_decay_rate", "bad_state", "bad_date"}

Damaged(data, kind) ==
    CASE kind = "intact" -> data
      [] kind = "session" ->
           [data EXCEPT !.learning_history =
               <<[session_id |-> "s1", start_time |-> IsoTime(0), end_time |-> "none"]>>]
      [] kind = "no_session_length" -> Drop(data, "optimal_session_length")
      [] kind = "no_cognitive_load" -> Drop(data, "current_cognitive_load")
      [] kind = "no_memories" -> Drop(data, "concept_memories")
      [] kind = "no_history" -> Drop(data, "learning_history")
      [] kind = "no_user_id" -> Drop(data, "user_id")
      [] kind = "no_decay_rate" ->
           [data EXCEPT !.concept_memories =
               [c \in DOMAIN @ |-> Drop(@[c], "decay_rate")]]
      [] kind = "bad_state" ->
           [data EXCEPT !.concept_memories["c1"].knowledge_state = "fluent"]
      [] kind = "bad_date" ->
           [data EXCEPT !.concept_memories["c1"].next_review = <<"text", 0>>]

\* db["user_profiles"] of the db.json the process starts on
PersistedStores ==
    {[u \in S |-> Damaged(PersistedProfile(u), kind[u])] :
        S \in {{"u1"}, {"u1", "u2"}}, kind \in [Users -> Damages]}

\* The state right after ContextualMemory() ran _load_profiles.
InitLoad ==
    /\ stored \in PersistedStores
    /\ \E order \in KeyOrders(DOMAIN stored), readable \in BOOLEAN :
          /\ user_profiles = load_profiles(stored, order, readable)
          /\ call = [op |-> "load", order |-> order, readable |-> readable]
    /\ clock = 0
    /\ drill = NoDrill
    /\ reply = NoReply
    /\ threads = NoThreads
    /\ budget = MaxSteps
    /\ cards = <<>>
    /\ today = 0
    /\ req = NoReq
    /\ pre = NoSrs
    /\ resp = <<>>
    /\ IdleInterleave

\* The process is started again: ContextualMemory() loads what db.json holds.
Restart(order, readable) ==
    /\ order \in KeyOrders(DOMAIN stored)
    /\ user_profiles' = load_profiles(stored, order, readable)
    /\ call' = [op |-> "load", order |-> order, readable |-> readable]
    /\ reply' = NoReply
    /\ UNCHANGED <<stored, clock, drill, threads, budget, cards, today, req, pre,
                   resp, ilVars>>

\* A right answer, a day after the previous call.
LoadedInteraction(u, c, save_ok) ==
    /\ budget > 0
    /\ budget' = budget - 1
    /\ learning_interaction_route(u, c, ConceptName(c), TRUE, 5000, 1000, "quiz",
                                  clock + 1000, save_ok)
    /\ UNCHANGED <<drill, cards, today, req, pre, resp, ilVars, threads>>

NextLoad ==
    \/ \E order \in KeyOrders(DOMAIN stored), readable \in BOOLEAN :
           Restart(order, readable)
    \/ \E u \in Users, c \in ConceptIds, save_ok \in BOOLEAN :
           LoadedInteraction(u, c, save_ok)

SpecLoad == InitLoad /\ [][NextLoad]_vars

-----------------------------------------------------------------------------
(* contextual_memory.py: optimize_learning_path *)

\* Mutant: the graph also holds the prerequisites of the targets.
ConceptGraphWithPrerequisites(profile, target_concepts) ==
    LET targets == {target_concepts[i] : i \in DOMAIN target_concepts}
        known == targets \cap DOMAIN profile.concept_memories
        pulled == UNION {{profile.concept_memories[c].prerequisites[i] :
                             i \in DOMAIN profile.concept_memories[c].prerequisites} :
                         c \in known}
    IN [c \in targets \cup pulled |->
          IF c \in DOMAIN profile.concept_memories
          THEN [known |-> TRUE, prerequisites |-> profile.concept_memories[c].prerequisites]
          ELSE [known |-> FALSE, prerequisites |-> <<>>]]

\* concept_graph: for every target concept its memory, if the profile has
\* one, and its prerequisites
ConceptGraph(profile, target_concepts) ==
    [c \in {target_concepts[i] : i \in DOMAIN target_concepts} |->
        IF c \in DOMAIN profile.concept_memories
        THEN [known |-> TRUE, prerequisites |-> profile.concept_memories[c].prerequisites]
        ELSE [known |-> FALSE, prerequisites |-> <<>>]]

NoVisits == [visited |-> {}, temp_visited |-> {}, sorted_concepts |-> <<>>]

\* Mutant: a concept is appended before its prerequisites are visited.
RECURSIVE visit_preorder(_, _, _)
visit_preorder(concept_id, concept_graph, st) ==
    IF concept_id \in st.temp_visited \/ concept_id \in st.visited THEN st
    ELSE LET prereqs == concept_graph[concept_id].prerequisites
             Walk[i \in 0..Len(prereqs)] ==
                 IF i = 0
                 THEN [st EXCEPT !.temp_visited = @ \cup {concept_id},
                                 !.sorted_concepts = Append(@, concept_id)]
                 ELSE IF prereqs[i] \in DOMAIN concept_graph
                 THEN visit_preorder(prereqs[i], concept_graph, Walk[i - 1])
                 ELSE Walk[i - 1]
             after == Walk[Len(prereqs)]
         IN [after EXCEPT !.temp_visited = @ \ {concept_id},
                          !.visited = @ \cup {concept_id}]

\* visit(concept_id), on the sets visited and temp_visited and the list
\* sorted_concepts held in st
RECURSIVE visit(_, _, _)
visit(concept_id, concept_graph, st) ==
    IF concept_id \in st.temp_visited THEN st
    ELSE IF concept_id \in st.visited THEN st
    ELSE LET prereqs == concept_graph[concept_id].prerequisites
             Walk[i \in 0..Len(prereqs)] ==
                 IF i = 0 THEN [st EXCEPT !.temp_visited = @ \cup {concept_id}]
                 ELSE IF prereqs[i] \in DOMAIN concept_graph
                 THEN visit(prereqs[i], concept_graph, Walk[i - 1])
                 ELSE Walk[i - 1]
             after == Walk[Len(prereqs)]
         IN [visited |-> after.visited \cup {concept_id},
             temp_visited |-> after.temp_visited \ {concept_id},
             sorted_concepts |-> Append(after.sorted_concepts, concept_id)]

\* for concept_id in target_concepts: visit(concept_id)
RECURSIVE VisitAll(_, _, _)
VisitAll(target_concepts, concept_graph, st) ==
    IF target_concepts = <<>> THEN st
    ELSE VisitAll(Tail(target_concepts), concept_graph,
                  visit(Head(target_concepts), concept_graph, st))

\* The estimated cognitive load of a concept, in millionths:
\* (1 - strength) * difficulty_adjustment, or 0.7 for a concept not met yet
EstimatedLoad(profile, concept_id) ==
    IF concept_id \in DOMAIN profile.concept_memories
    THEN LET m == profile.concept_memories[concept_id]
         IN (1000 - m.memory_strength) * m.difficulty_adjustment
    ELSE 700000

\* The dict appended to learning_path for a session
Session(session_concepts, current_load) ==
    [session_type |-> "study",
     concepts |-> session_concepts,
     estimated_duration |-> Len(session_concepts) * 5,
     cognitive_load |-> current_load]

\* The entry of a concept in its session
SessionConcept(profile, concept_id) ==
    LET known == concept_id \in DOMAIN profile.concept_memories
    IN [concept_id |-> concept_id,
        estimated_load |-> EstimatedLoad(profile, concept_id),
        current_state |->
            IF known THEN EnumValue(profile.concept_memories[concept_id].knowledge_state)
            ELSE "new",
        priority |->
            1000 - (IF known THEN profile.concept_memories[concept_id].memory_strength
                    ELSE 0)]

\* Mutant: a new session is opened for every concept.
RECURSIVE PackSingles(_, _, _)
PackSingles(sorted_concepts, profile, pk) ==
    IF sorted_concepts = <<>> THEN pk
    ELSE LET concept_id == Head(sorted_concepts)
             load == EstimatedLoad(profile, concept_id)
             opened ==
                 IF pk.session_concepts # <<>>
                 THEN [learning_path |->
                           Append(pk.learning_path,
                                  Session(pk.session_concepts, pk.current_load)),
                       session_concepts |-> <<>>,
                       current_load |-> 0]
                 ELSE pk
         IN PackSingles(Tail(sorted_concepts), profile,
                 [opened EXCEPT
                    !.session_concepts = Append(@, SessionConcept(profile, concept_id)),
                    !.current_load = @ + load])

\* Mutant: the open session is never closed before the end.
RECURSIVE PackAll(_, _, _)
PackAll(sorted_concepts, profile, pk) ==
    IF sorted_concepts = <<>> THEN pk
    ELSE LET concept_id == Head(sorted_concepts)
         IN PackAll(Tail(sorted_concepts), profile,
                 [pk EXCEPT
                    !.session_concepts = Append(@, SessionConcept(profile, concept_id)),
                    !.current_load = @ + EstimatedLoad(profile, concept_id)])

\* The loop that packs sorted_concepts into sessions; pk holds learning_path,
\* session_concepts and current_load
RECURSIVE Pack(_, _, _)
Pack(sorted_concepts, profile, pk) ==
    IF sorted_concepts = <<>> THEN pk
    ELSE LET concept_id == Head(sorted_concepts)
             load == EstimatedLoad(profile, concept_id)
             full == /\ pk.current_load + load > profile.current_cognitive_load * 1000
                     /\ pk.session_concepts # <<>>
             opened ==
                 IF full
                 THEN [learning_path |->
                           Append(pk.learning_path,
                                  Session(pk.session_concepts, pk.current_load)),
                       session_concepts |-> <<>>,
                       current_load |-> 0]
                 ELSE pk
         IN Pack(Tail(sorted_concepts), profile,
                 [opened EXCEPT
                    !.session_concepts = Append(@, SessionConcept(profile, concept_id)),
                    !.current_load = @ + load])

\* optimize_learning_path
optimize_learning_path(profile, target_concepts) ==
    LET concept_graph == ConceptGraph(profile, target_concepts)
        sorted_concepts ==
            VisitAll(target_concepts, concept_graph, NoVisits).sorted_concepts
        pk == Pack(sorted_concepts, profile,
                   [learning_path |-> <<>>, session_concepts |-> <<>>, current_load |-> 0])
    IN IF pk.session_concepts # <<>>
       THEN Append(pk.learning_path, Session(pk.session_concepts, pk.current_load))
       ELSE pk.learning_path

\* POST /api/advanced/learning_path
learning_path_route(user_id, target_concepts) ==
    IF target_concepts = <<>>
    THEN /\ reply' = [status |-> 400, body |-> "target_concepts required"]
         /\ call' = [op |-> "rejected", user_id |-> user_id]
         /\ UNCHANGED <<user_profiles, stored, clock>>
    ELSE LET profiles == WithProfile(user_profiles, user_id)
             learning_path == optimize_learning_path(profiles[user_id], target_concepts)
         IN /\ user_profiles' = profiles
            /\ call' = [op |-> "path", user_id |-> user_id,
                        target_concepts |-> target_concepts,
                        result |-> learning_path]
            /\ reply' = [status |-> 200, body |-> learning_path]
            /\ UNCHANGED <<stored, clock>>

-----------------------------------------------------------------------------
(* A process started on a db.json whose concepts have prerequisites *)

\* The concept memory of c after n answers, all right or all wrong, given
\* at once with full confidence, one a day from day 0
RECURSIVE MemoryAfter(_, _, _)
MemoryAfter(c, n, is_correct) ==
    IF n = 1
    THEN UpdatedMemory(NewMemory(c, ConceptName(c), 0, 1000, "quiz", 0),
                       is_correct, 0, 1000, "quiz", 0)
    ELSE UpdatedMemory(MemoryAfter(c, n - 1, is_correct),
                       is_correct, 0, 1000, "quiz", (n - 1) * 1000)

\* Two learners' histories: how many answers each concept got, right or wrong
Histories ==
    {[c1 |-> <<8, TRUE>>, c2 |-> <<1, FALSE>>, c3 |-> <<8, TRUE>>],
     [c1 |-> <<2, FALSE>>, c2 |-> <<8, TRUE>>, c3 |-> <<1, TRUE>>]}

\* The prerequisites db.json may hold for each concept: none, other targets
\* (also in a cycle, also the concept itself) and a concept nobody has met
Prerequisites ==
    [c1 : {<<>>, <<"c2">>, <<"c3">>, <<"c2", "c3">>, <<"c1">>},
     c2 : {<<>>, <<"c1">>, <<"c3">>, <<"c3", "c1">>},
     c3 : {<<>>, <<"c1">>, <<"c2">>, <<"c1", "c2">>, <<"c9">>}]

\* The session capacities db.json may hold
Capacities == {500, 1000}

PlannedStores ==
    {[u \in {"u1"} |->
        serialize_profile(
            [NewProfile(u) EXCEPT
               !.current_cognitive_load = capacity,
               !.concept_memories =
                   [c \in {"c1", "c2", "c3"} |->
                       [MemoryAfter(c, h[c][1], h[c][2]) EXCEPT
                          !.prerequisites = pre_of[c]]]])] :
        h \in Histories, pre_of \in Prerequisites, capacity \in Capacities}

\* target_concepts of a request: up to MaxTargets ids, repeats allowed
TargetLists ==
    UNION {[1..n -> {"c1", "c2", "c3", "c9"}] : n \in 0..MaxTargets}

InitPath ==
    /\ stored \in PlannedStores
    /\ user_profiles = load_profiles(stored, <<"u1">>, TRUE)
    /\ call = [op |-> "load", order |-> <<"u1">>, readable |-> TRUE]
    /\ clock = 0
    /\ drill = NoDrill
    /\ reply = NoReply
    /\ threads = NoThreads
    /\ budget = 0
    /\ cards = <<>>
    /\ today = 0
    /\ req = NoReq
    /\ pre = NoSrs
    /\ resp = <<>>
    /\ IdleInterleave

\* The first request the process serves.
PathRequest(u, target_concepts) ==
    /\ call.op = "load"
    /\ learning_path_route(u, target_concepts)
    /\ UNCHANGED <<drill, threads, budget, cards, today, req, pre, resp, ilVars>>

NextPath == \E u \in Users, target_concepts \in TargetLists : PathRequest(u, target_concepts)

SpecPath == InitPath /\ [][NextPath]_vars

-----------------------------------------------------------------------------
(* Two requests to /api/advanced/learning_interaction served at once *)

\* The threads of the server that serve the two requests.  They share the
\* ContextualMemory instance of the process and db.json.
Threads == {1, 2}

IdleThread == [pc |-> "idle", user_id |-> "", concept_id |-> "", snapshot |-> <<>>]

\* Mutant: profiles are written only when db.json holds none yet.
WriteDbIfAbsent(on_disk, profiles_data) ==
    IF on_disk = <<>> THEN profiles_data ELSE on_disk

\* db["user_profiles"] = profiles_data; save_db(db): what db.json holds
\* afterwards
WriteDb(on_disk, profiles_data) == profiles_data

InitRace ==
    /\ user_profiles = <<>>
    /\ stored = <<>>
    /\ clock = 0
    /\ drill = NoDrill
    /\ call = NoCall
    /\ reply = NoReply
    /\ threads = [t \in Threads |-> IdleThread]
    /\ budget = 0
    /\ cards = <<>>
    /\ today = 0
    /\ req = NoReq
    /\ pre = NoSrs
    /\ resp = <<>>
    /\ IdleInterleave

\* Thread t takes a request and runs record_learning_interaction up to the
\* call of _save_profiles: the profile held in memory is updated.
ThreadUpdate(t, u, c, is_correct) ==
    /\ threads[t].pc = "idle"
    /\ user_profiles' = interaction_profiles(u, c, ConceptName(c), is_correct,
                            5000, 1000, "quiz", clock + 1000)
    /\ clock' = clock + 1000
    /\ threads' = [threads EXCEPT ![t] = [pc |-> "updated", user_id |-> u,
                                          concept_id |-> c, snapshot |-> <<>>]]
    /\ call' = [op |-> "update", thread |-> t]
    /\ UNCHANGED <<stored, reply, drill, budget, cards, today, req, pre, resp, ilVars>>

\* Thread t runs _save_profiles up to save_db: it reads db.json and
\* serializes every profile held in memory.
ThreadSerialize(t) ==
    /\ threads[t].pc = "updated"
    /\ threads' = [threads EXCEPT ![t].pc = "serialized",
                                  ![t].snapshot = SavedProfiles(user_profiles)]
    /\ call' = [op |-> "serialize", thread |-> t]
    /\ UNCHANGED <<user_profiles, stored, clock, reply, drill, budget, cards, today,
                   req, pre, resp, ilVars>>

\* Thread t runs save_db and answers the request.
ThreadWrite(t) ==
    /\ threads[t].pc = "serialized"
    /\ stored' = WriteDb(stored, threads[t].snapshot)
    /\ threads' = [threads EXCEPT ![t].pc = "done"]
    /\ call' = [op |-> "write", thread |-> t]
    /\ reply' = [status |-> 200, body |-> "success"]
    /\ UNCHANGED <<user_profiles, clock, drill, budget, cards, today, req, pre, resp,
                   ilVars>>

NextRace ==
    \E t \in Threads :
        \/ \E u \in Users, c \in ConceptIds, is_correct \in BOOLEAN :
               ThreadUpdate(t, u, c, is_correct)
        \/ ThreadSerialize(t)
        \/ ThreadWrite(t)

SpecRace == InitRace /\ [][NextRace]_vars

-----------------------------------------------------------------------------
(* Two requests to /api/review/<cid> served at once *)

\* No thread has taken a review request; db is a thread's copy of db.json.
InitReviewRace ==
    /\ cards \in Stores(NumCards)
    /\ today = 0
    /\ threads = [t \in Threads |->
                    [pc |-> "idle", cid |-> 0, quality |-> 0, db |-> <<>>]]
    /\ budget = 0
    /\ req = NoReq
    /\ pre = NoSrs
    /\ resp = <<>>
    /\ user_profiles = <<>>
    /\ stored = <<>>
    /\ clock = 0
    /\ drill = NoDrill
    /\ call = NoCall
    /\ reply = NoReply
    /\ IdleInterleave

\* Thread t takes a review request and runs load_db: it reads the whole
\* store.
ReviewLoad(t, cid, quality) ==
    /\ threads[t].pc = "idle"
    /\ threads' = [threads EXCEPT ![t] = [pc |-> "loaded", cid |-> cid,
                                          quality |-> quality, db |-> cards]]
    /\ call' = [op |-> "review_load", thread |-> t]
    /\ UNCHANGED <<cards, today, budget, req, pre, resp, user_profiles, stored,
                   clock, drill, reply, ilVars>>

\* Thread t runs update_srs on the first card of its copy with the id of
\* the request.
ReviewUpdate(t) ==
    /\ threads[t].pc = "loaded"
    /\ LET db == threads[t].db
           i == CHOOSE k \in DOMAIN db : db[k].id = threads[t].cid
       IN threads' = [threads EXCEPT
                        ![t].pc = "updated",
                        ![t].db[i].srs = update_srs(db[i].srs, threads[t].quality, today)]
    /\ call' = [op |-> "review_update", thread |-> t]
    /\ UNCHANGED <<cards, today, budget, req, pre, resp, user_profiles, stored,
                   clock, drill, reply, ilVars>>

\* Thread t runs save_progress(db): save_db writes its whole copy, and the
\* request is answered.
ReviewSave(t) ==
    /\ threads[t].pc = "updated"
    /\ cards' = threads[t].db
    /\ threads' = [threads EXCEPT ![t].pc = "done"]
    /\ call' = [op |-> "review_save", thread |-> t]
    /\ UNCHANGED <<today, budget, req, pre, resp, user_profiles, stored, clock,
                   drill, reply, ilVars>>

\* The requests carry a failed, a passed or a perfect review.
NextReviewRace ==
    \E t \in Threads :
        \/ \E cid \in {cards[k].id : k \in DOMAIN cards}, quality \in {0, 3, 5} :
               ReviewLoad(t, cid, quality)
        \/ ReviewUpdate(t)
        \/ ReviewSave(t)

SpecReviewRace == InitReviewRace /\ [][NextReviewRace]_vars

-----------------------------------------------------------------------------
(* Requests whose quality or confidence is out of range *)

\* "quality" of a review request: any integer int() accepts
RequestQualities == {0 - 1, 0, 3, 5, 6, 7}

\* "confidence" of an interaction request: any number, in thousandths
RequestConfidences == {0 - 500, 0, 500, 1000, 1500}

\* A store of cards and a process without profiles.
InitApi == InitCards(NumCards, MaxReviews)

\* An interaction of learner u1 with concept c1, a day after the last call.
InteractionRequest(is_correct, confidence) ==
    /\ budget > 0
    /\ budget' = budget - 1
    /\ learning_interaction_route("u1", "c1", ConceptName("c1"), is_correct, 5000,
                                  confidence, "quiz", clock + 1000, TRUE)
    /\ UNCHANGED <<drill, cards, today, req, pre, resp, ilVars, threads>>

NextApi ==
    \/ \E cid \in {cards[k].id : k \in DOMAIN cards}, q \in RequestQualities :
           review_route(cid, q)
    \/ \E is_correct \in BOOLEAN, confidence \in RequestConfidences :
           InteractionRequest(is_correct, confidence)

SpecApi == InitApi /\ [][NextApi]_vars

-----------------------------------------------------------------------------
(* A process started on a db.json that holds a long-practised concept *)

\* db.json with learner u1, concept c1, reviewed up to the last time that
\* 1.3 ** review_count is a float, or twice less, and concept c2, failed
\* once.  VeteranMemory is the concept memory of c after n right answers (n
\* in the thousands), given at once with full confidence, one a day from day
\* 0: the strength has reached 1.0 and the decay rate its floor, the counters
\* are n, and the last interval was cut at 365 days.
VeteranStores ==
    LET VeteranMemory(c, n) ==
            [NewMemory(c, ConceptName(c), 0, 1000, "quiz", 0) EXCEPT
               !.knowledge_state = "EXPERT",
               !.learning_phase = "TRANSFER",
               !.memory_strength = 1000,
               !.decay_rate = 10,
               !.total_attempts = n,
               !.correct_answers = n,
               !.review_count = n,
               !.last_review = (n - 1) * 1000,
               !.next_review = (n - 1) * 1000 + 365000]
    IN
    {[u \in {"u1"} |->
        serialize_profile(
            [NewProfile(u) EXCEPT
               !.concept_memories =
                   [c \in {"c1", "c2"} |->
                       IF c = "c1" THEN VeteranMemory(c, n)
                       ELSE MemoryAfter(c, 1, FALSE)]])] :
        n \in (PowOverflow - 2)..PowOverflow}

InitVeteran ==
    /\ stored \in VeteranStores
    /\ user_profiles = load_profiles(stored, <<"u1">>, TRUE)
    /\ call = [op |-> "load", order |-> <<"u1">>, readable |-> TRUE]
    /\ clock = user_profiles["u1"].concept_memories["c1"].last_review
    /\ drill = NoDrill
    /\ reply = NoReply
    /\ threads = NoThreads
    /\ budget = MaxSteps + 1
    /\ cards = <<>>
    /\ today = 0
    /\ req = NoReq
    /\ pre = NoSrs
    /\ resp = <<>>
    /\ IdleInterleave

\* Interactions with the long-practised concept, or of a new learner, and
\* interactions that name the concept as the request likes.
NextVeteran ==
    \/ \E u \in Users, is_correct \in BOOLEAN, pace \in Paces, confidence \in {500, 1000} :
           FreeInteraction(u, "c1", is_correct, pace[1], confidence, pace[2], TRUE)
    \/ \E u \in Users, c \in ConceptIds, is_correct \in BOOLEAN :
           /\ budget > 0
           /\ budget' = budget - 1
           /\ learning_interaction_route(u, c, "Renamed", is_correct, 5000, 1000,
                                         "exam", clock + 1000, TRUE)
           /\ UNCHANGED <<drill, cards, today, req, pre, resp, ilVars, threads>>

SpecVeteran == InitVeteran /\ [][NextVeteran]_vars

-----------------------------------------------------------------------------
(* A process started on a db.json of six concepts, asked for analytics *)

ReportConcepts == <<"c1", "c2", "c3", "c4", "c5", "c6">>

\* db.json with learner u1 and six concepts.  ReportHistory says how many
\* answers each of the six concepts got, right or wrong: the first `failed`
\* concepts are failed once (strength 0), the next `begun` have two right
\* answers, the next `known` eight, and the others ten.  ReportHistories are
\* six concepts that need attention, six that are known, and mixtures.
ReportStores ==
    LET ReportHistory(failed, begun, known) ==
            [i \in DOMAIN ReportConcepts |->
                IF i <= failed THEN <<1, FALSE>>
                ELSE IF i <= failed + begun THEN <<2, TRUE>>
                ELSE IF i <= failed + begun + known THEN <<8, TRUE>>
                ELSE <<10, TRUE>>]
        ReportHistories ==
            {ReportHistory(t[1], t[2], t[3]) :
                t \in {<<6, 0, 0>>, <<3, 3, 0>>, <<2, 4, 0>>, <<1, 4, 1>>, <<2, 3, 0>>,
                       <<0, 0, 6>>, <<0, 0, 3>>, <<0, 0, 1>>, <<0, 1, 2>>, <<1, 0, 4>>,
                       <<1, 1, 2>>, <<2, 2, 1>>}}
    IN
    {[u \in {"u1"} |->
        serialize_profile(
            [NewProfile(u) EXCEPT
               !.concept_memories =
                   [c \in {ReportConcepts[i] : i \in DOMAIN ReportConcepts} |->
                       LET i == CHOOSE k \in DOMAIN ReportConcepts : ReportConcepts[k] = c
                       IN MemoryAfter(c, h[i][1], h[i][2])]])] :
        h \in ReportHistories}

InitReport ==
    /\ stored \in ReportStores
    /\ user_profiles = load_profiles(stored, <<"u1">>, TRUE)
    /\ call = [op |-> "load", order |-> <<"u1">>, readable |-> TRUE]
    /\ clock = 10000
    /\ drill = NoDrill
    /\ reply = NoReply
    /\ threads = NoThreads
    /\ budget = 1
    /\ cards = <<>>
    /\ today = 0
    /\ req = NoReq
    /\ pre = NoSrs
    /\ resp = <<>>
    /\ IdleInterleave

\* The first request the process serves, at once or twelve days later.
NextReport ==
    /\ call.op = "load"
    /\ \E gap \in {0, 12000} :
       \E order \in KeyOrders(DOMAIN user_profiles["u1"].concept_memories) :
           AnalyticsRequest("u1", gap, order)

SpecReport == InitReport /\ [][NextReport]_vars

-----------------------------------------------------------------------------
(* Properties of the card scheduler *)

\* The card the last review request named.
Reviewed == cards[CHOOSE k \in DOMAIN cards : cards[k].id = req.cid].srs

\* The srs dict update_srs started from: the stored one, or the defaults.
PreSrs == IF pre.has THEN pre ELSE DefaultSrs(req.day)

\* C1: after any sequence of update_srs calls on a card created with the
\* defaults, its ease factor is within [1.3, 2.8] and its interval is an
\* integer >= 1.
C1_EaseAndIntervalBounds ==
    \A k \in DOMAIN cards :
        cards[k].srs.has =>
            /\ 130 <= cards[k].srs.EF /\ cards[k].srs.EF <= 280
            /\ cards[k].srs.interval \in Nat
            /\ cards[k].srs.interval >= 1

\* A review whose raw ease factor fell below 1.3 and was clamped.
C1_Witness ==
    /\ req.op = "review" /\ req.quality = 3
    /\ pre.has /\ pre.EF - 14 < 130
    /\ Reviewed.EF = 130
    /\ Reviewed.interval > 6

\* C2: an update_srs call with quality < 3 leaves the card with
\* repetitions = 0 and interval = 1, whatever its state was.
C2_LowQualityResets ==
    (req.op = "review" /\ req.quality < 3) =>
        (Reviewed.reps = 0 /\ Reviewed.interval = 1)

\* A quality-2 review of a card that had three or more repetitions.
C2_Witness ==
    /\ req.op = "review" /\ req.quality = 2
    /\ pre.has /\ pre.reps >= 3 /\ pre.interval > 6
    /\ Reviewed.reps = 0

\* n is Python's round(i * e / 100): the nearest integer, a tie going to the
\* even one.
IsRounded(n, i, e) ==
    LET diff == IF 100 * n >= i * e THEN 100 * n - i * e ELSE i * e - 100 * n
    IN /\ 2 * diff <= 100
       /\ (2 * diff = 100 => n % 2 = 0)

\* C3: an update_srs call with quality >= 3 increases repetitions by exactly
\* 1 and sets interval to 1 when the new repetitions is 1, to 6 when it is 2,
\* and otherwise to round(previous interval * the ease factor held when the
\* call started); so the third of three quality-5 reviews of a fresh card
\* (ease 2.7 by then) gives round(6 * 2.7) = 16.
C3_SuccessInterval ==
    (req.op = "review" /\ req.quality >= 3) =>
        /\ Reviewed.reps = PreSrs.reps + 1
        /\ Reviewed.reps = 1 => Reviewed.interval = 1
        /\ Reviewed.reps = 2 => Reviewed.interval = 6
        /\ Reviewed.reps >= 3 =>
               IsRounded(Reviewed.interval, PreSrs.interval, PreSrs.EF)
        /\ (Reviewed.reps = 3 /\ PreSrs.EF = 270) => Reviewed.interval = 16

\* The third quality-5 review in a row: interval round(6 * 2.7), rounded up.
C3_Witness ==
    /\ req.op = "review" /\ req.quality = 5
    /\ pre.has /\ pre.reps = 2 /\ pre.interval = 6 /\ pre.EF = 270
    /\ Reviewed.reps = 3 /\ Reviewed.interval = 16

\* ease + (0.1 - (5 - q) * (0.08 + (5 - q) * 0.02)) clamped to [1.3, 2.8], in
\* hundredths.
ClampedEase(ease, q) ==
    LET raw == ease + 10 - (5 - q) * (8 + (5 - q) * 2)
    IN IF raw < 130 THEN 130 ELSE IF raw > 280 THEN 280 ELSE raw

\* C4 as stated: for every quality q in 0..5, one update_srs call replaces
\* the ease factor by ease + (0.1 - (5-q) * (0.08 + (5-q) * 0.02)) clamped to
\* [1.3, 2.8].
C4_EaseFormulaAllQualities ==
    req.op = "review" => Reviewed.EF = ClampedEase(PreSrs.EF, req.quality)

\* C4 amended: for every quality q in 3..5 the call replaces the ease factor
\* by the clamped formula; for q < 3 it leaves the ease factor unchanged.
C4_EaseFormulaOnSuccess ==
    req.op = "review" =>
        /\ req.quality >= 3 => Reviewed.EF = ClampedEase(PreSrs.EF, req.quality)
        /\ req.quality < 3 => Reviewed.EF = PreSrs.EF

\* A quality-3 review that lowered the ease factor from 2.6 by 0.14.
C4_Witness ==
    /\ req.op = "review" /\ req.quality = 3
    /\ pre.has /\ pre.EF = 260
    /\ Reviewed.EF = 246

\* The day whose ISO date is the string s.
DayOfIso(s) == CHOOSE n \in 0..(MaxDay + MaxInterval) : IsoFormat(DateOf(n)) = s

\* The day a card is due: its stored due date, or the day of the request.
DueDay(card, day) == IF card.srs.has THEN DayOfIso(card.srs.due) ELSE day

\* C5: due_cards returns, as a set, exactly the cards of the store whose due
\* date is <= today (a card with no stored due date counts as due today), and
\* returns no card twice.
C5_DueCardsExact ==
    req.op = "due" =>
        /\ {resp[i] : i \in DOMAIN resp}
             = {cards[k] : k \in {j \in DOMAIN cards : DueDay(cards[j], req.day) <= req.day}}
        /\ \A i, j \in DOMAIN resp : resp[i] = resp[j] => i = j

\* A due list, asked for after the new year, that holds a card due in the
\* old year and leaves out a card due later.
C5_Witness ==
    /\ req.op = "due" /\ req.day >= 1
    /\ \E i \in DOMAIN resp : resp[i].srs.has /\ DueDay(resp[i], req.day) < req.day
    /\ \E k \in DOMAIN cards : cards[k].srs.has /\ DueDay(cards[k], req.day) > req.day

-----------------------------------------------------------------------------
(* Properties of the theme interleaver *)

\* The theme a card counts under: its own, or "General" when it has none.
ThemeName(c) == IF c.theme = NoTheme THEN "General" ELSE c.theme

\* Number of occurrences of card c in the list cs.
Count(c, cs) == Cardinality({i \in DOMAIN cs : cs[i] = c})

\* C6: interleave_by_theme returns a permutation of its input: the same
\* cards with the same multiplicities.
C6_Permutation ==
    ilDone =>
        /\ Len(ilOut) = Len(ilIn)
        /\ \A c \in IlCards : Count(c, ilOut) = Count(c, ilIn)

\* A list with a repeated card and two themes, reordered by the call.
C6_Witness ==
    /\ ilDone /\ ilOut # ilIn
    /\ \E c \in IlCards : Count(c, ilIn) >= 2
    /\ \E i, j \in DOMAIN ilIn : ThemeName(ilIn[i]) # ThemeName(ilIn[j])

\* C7: in the output, whenever two adjacent cards have the same theme, every
\* card that follows them also has that theme.
C7_NoRunUnlessLastTheme ==
    ilDone =>
        \A i \in 1..(Len(ilOut) - 1) :
            ThemeName(ilOut[i]) = ThemeName(ilOut[i + 1]) =>
                \A j \in (i + 1)..Len(ilOut) : ThemeName(ilOut[j]) = ThemeName(ilOut[i])

\* An output that alternates between themes and ends with a run of one.
C7_Witness ==
    /\ ilDone /\ Len(ilOut) >= 4
    /\ ThemeName(ilOut[1]) # ThemeName(ilOut[2])
    /\ ThemeName(ilOut[Len(ilOut)]) = ThemeName(ilOut[Len(ilOut) - 1])

\* Position in the input of the first card of the theme of card number i.
FirstOfTheme(i) ==
    CHOOSE k \in DOMAIN ilIn :
        /\ ThemeName(ilIn[k]) = ThemeName(ilIn[i])
        /\ \A j \in 1..(k - 1) : ThemeName(ilIn[j]) # ThemeName(ilIn[i])

\* The round that emits card number i: its rank among the cards of its theme.
RoundOf(i) == Cardinality({j \in 1..i : ThemeName(ilIn[j]) = ThemeName(ilIn[i])})

\* Card j is emitted before card i: in an earlier round, or in the same
\* round from a theme that appeared first.
Before(j, i) ==
    \/ RoundOf(j) < RoundOf(i)
    \/ RoundOf(j) = RoundOf(i) /\ FirstOfTheme(j) < FirstOfTheme(i)

ThemesOf(cs) == [i \in DOMAIN cs |-> ThemeName(cs[i])]

\* C8: the output is emitted in rounds, each taking the head of every
\* non-empty theme queue, themes in order of first appearance and cards of a
\* theme in input order, cards without a theme under "General"; themes
\* [A,A,B,B,B] give exactly [A,B,A,B,B].
C8_RoundRobinOrder ==
    ilDone =>
        /\ Len(ilOut) = Len(ilIn)
        /\ \A i \in DOMAIN ilIn :
               ilOut[1 + Cardinality({j \in DOMAIN ilIn : Before(j, i)})] = ilIn[i]
        /\ ThemesOf(ilIn) = <<"A", "A", "B", "B", "B">>
               => ThemesOf(ilOut) = <<"A", "B", "A", "B", "B">>

\* The list of the test, its two A cards told apart by their ids.
C8_Witness ==
    /\ ilDone
    /\ ThemesOf(ilIn) = <<"A", "A", "B", "B", "B">>
    /\ ThemesOf(ilOut) = <<"A", "B", "A", "B", "B">>
    /\ ilIn[1] # ilIn[2] /\ ilOut[1] = ilIn[1] /\ ilOut[3] = ilIn[2]

\* A card without a theme and a card that names "General" share one queue.
C8_GeneralShared ==
    /\ ilDone /\ Len(ilIn) = 3
    /\ ilIn[1].theme = NoTheme /\ ilIn[2].theme = "General" /\ ilIn[3].theme = "A"
    /\ ilOut = <<ilIn[1], ilIn[3], ilIn[2]>>

-----------------------------------------------------------------------------
(* Properties of the contextual memory manager *)

\* Every concept memory held in memory, with its owner.
Memories ==
    {<<u, c>> \in Users \X ConceptIds :
        u \in DOMAIN user_profiles /\ c \in DOMAIN user_profiles[u].concept_memories}

Memory(u, c) == user_profiles[u].concept_memories[c]

\* C9: after any sequence of record_learning_interaction calls with
\* confidence in [0,1] and response time >= 0, every concept memory has
\* memory_strength in [0,1], confidence_level in [0,1], decay_rate in
\* [0.01, 0.5] and difficulty_adjustment in [0.5, 2.0].
C9_SignalBounds ==
    \A uc \in Memories :
        LET m == Memory(uc[1], uc[2]) IN
        /\ 0 <= m.memory_strength /\ m.memory_strength <= 1000
        /\ 0 <= m.confidence_level /\ m.confidence_level <= 1000
        /\ 10 <= m.decay_rate /\ m.decay_rate <= 500
        /\ 500 <= m.difficulty_adjustment /\ m.difficulty_adjustment <= 2000

\* A wrong, slow answer to a concept whose decay rate and difficulty were
\* already at their ceilings and whose strength was already 0.
C9_Witness ==
    /\ call.op = "record" /\ ~call.is_correct /\ call.confidence = 1000
    /\ <<call.user_id, call.concept_id>> \in Memories
    /\ LET m == Memory(call.user_id, call.concept_id) IN
       /\ m.total_attempts >= 19
       /\ m.memory_strength = 0
       /\ m.confidence_level = 100
       /\ m.decay_rate = 500
       /\ m.difficulty_adjustment = 2000

\* A right answer to a concept whose decay rate and difficulty were at their
\* floors.
C9_WitnessFloors ==
    /\ call.op = "record" /\ call.is_correct
    /\ <<call.user_id, call.concept_id>> \in Memories
    /\ LET m == Memory(call.user_id, call.concept_id) IN
       /\ m.decay_rate = 10
       /\ m.difficulty_adjustment = 500
       /\ m.memory_strength > 900

\* C10: after every record_learning_interaction call, including the one
\* that creates the concept memory, next_review >= last_review >=
\* first_exposure.
C10_ReviewTimesOrdered ==
    \A uc \in Memories :
        LET m == Memory(uc[1], uc[2]) IN
        /\ m.next_review >= m.last_review
        /\ m.last_review >= m.first_exposure

\* A wrong answer, days after a concept was first met, that leaves its next
\* review half a day after the call.
C10_Witness ==
    /\ call.op = "record" /\ ~call.is_correct
    /\ <<call.user_id, call.concept_id>> \in Memories
    /\ LET m == Memory(call.user_id, call.concept_id) IN
       /\ m.review_count >= 2
       /\ m.last_review = call.now
       /\ m.last_review >= m.first_exposure + 8000
       /\ m.next_review = m.last_review + 500

\* The call that creates a concept memory.
C10_WitnessCreation ==
    /\ call.op = "record"
    /\ <<call.user_id, call.concept_id>> \in Memories
    /\ LET m == Memory(call.user_id, call.concept_id) IN
       /\ m.review_count = 1
       /\ m.first_exposure = call.now /\ m.last_review = call.now
       /\ m.next_review > call.now

-----------------------------------------------------------------------------
(* Properties of get_due_concepts and generate_learning_analytics *)

\* The concept memories of the learner of the last call
CallMemories ==
    IF call.user_id \in DOMAIN user_profiles
    THEN user_profiles[call.user_id].concept_memories ELSE <<>>

\* C11: get_due_concepts never returns a concept whose next_review is later
\* than the time of the call, for any profile and any max_count.
C11_OnlyDueReturned ==
    call.op = "due" =>
        \A i \in DOMAIN call.result :
            CallMemories[call.result[i]].next_review <= call.now

\* A call that returns a due concept and holds back one that is not due,
\* although max_count left room for it.
C11_Witness ==
    /\ call.op = "due"
    /\ Len(call.result) >= 1
    /\ Len(call.result) < call.max_count
    /\ \E c \in DOMAIN CallMemories :
          /\ CallMemories[c].next_review > call.now
          /\ \A i \in DOMAIN call.result : call.result[i] # c

\* The priority of a concept at the time of a call, in ten-thousandths:
\* 0.3 * min(10, days overdue) + 0.4 * (1 - strength) + 0.3 * phase weight
ClaimedPriority(m, now) ==
    LET overdue == (now - m.next_review) \div 1000
        capped == IF overdue > 10 THEN 10 ELSE overdue
        weight == CASE m.learning_phase = "ACQUISITION" -> 10
                    [] m.learning_phase = "CONSOLIDATION" -> 8
                    [] m.learning_phase = "RETENTION" -> 6
                    [] m.learning_phase = "TRANSFER" -> 4
    IN 3000 * capped + 4 * (1000 - m.memory_strength) + 300 * weight

\* The concepts returned come in non-increasing priority, and no due concept
\* left out has a higher priority than one returned.
TopByPriority ==
    LET r == call.result
        P(c) == ClaimedPriority(CallMemories[c], call.now)
        left_out == {c \in DOMAIN CallMemories :
                        /\ CallMemories[c].next_review <= call.now
                        /\ \A i \in DOMAIN r : r[i] # c}
    IN /\ \A i, j \in DOMAIN r : i < j => P(r[i]) >= P(r[j])
       /\ \A c \in left_out : \A i \in DOMAIN r : P(c) <= P(r[i])

\* C12: get_due_concepts returns at most max_count concepts (none when
\* max_count is below 1), in non-increasing priority, and every due concept
\* left out has a priority no higher than every concept returned.
C12_AtMostMaxCountByPriority ==
    call.op = "due" =>
        /\ Len(call.result) <= (IF call.max_count < 0 THEN 0 ELSE call.max_count)
        /\ TopByPriority

\* The same for the counts that are not negative.
C12_ForNaturalCounts ==
    call.op = "due" /\ call.max_count >= 0 =>
        Len(call.result) <= call.max_count /\ TopByPriority

\* Three due concepts of three different priorities, of which the call
\* returns the two most urgent.
C12_Truncated ==
    /\ call.op = "due" /\ call.max_count = 2 /\ Len(call.result) = 2
    /\ \E c \in DOMAIN CallMemories :
          /\ CallMemories[c].next_review <= call.now
          /\ \A i \in DOMAIN call.result :
                /\ call.result[i] # c
                /\ ClaimedPriority(CallMemories[c], call.now)
                     < ClaimedPriority(CallMemories[call.result[i]], call.now)
    /\ ClaimedPriority(CallMemories[call.result[1]], call.now)
         > ClaimedPriority(CallMemories[call.result[2]], call.now)

\* C15: generate_learning_analytics on a profile with zero concept memories,
\* that of a learner never seen before included, returns the explicit
\* no-data result and raises no exception.
C15_NoDataOnEmptyProfile ==
    call.op = "analytics" /\ DOMAIN CallMemories = {} =>
        /\ call.result = [error |-> "No learning data available"]
        /\ reply = [status |-> 200, body |-> call.result]

\* Analytics asked for a learner never seen before, while another learner
\* has concept memories.
C15_Witness ==
    /\ call.op = "analytics"
    /\ call.user_id = "u2"
    /\ DOMAIN CallMemories = {}
    /\ "u1" \in DOMAIN user_profiles
    /\ DOMAIN user_profiles["u1"].concept_memories # {}
    /\ reply.status = 200

\* The concepts that C26 calls weak and strong; the accuracy of a concept
\* without attempts is 0
ClaimedWeak ==
    {c \in DOMAIN CallMemories :
        \/ CallMemories[c].memory_strength < 500
        \/ CallMemories[c].total_attempts = 0
        \/ 10 * CallMemories[c].correct_answers < 6 * CallMemories[c].total_attempts}

ClaimedStrong ==
    {c \in DOMAIN CallMemories : CallMemories[c].knowledge_state \in {"MASTERED", "EXPERT"}}

\* The ids of a reported list, and their set
ListedIds(areas) == [i \in DOMAIN areas |-> areas[i].concept_id]
ListedSet(areas) == {areas[i].concept_id : i \in DOMAIN areas}

\* areas is in ascending (up = TRUE) or descending order of strength
InStrengthOrder(areas, up) ==
    \A i, j \in DOMAIN areas :
        i < j => IF up THEN areas[i].memory_strength <= areas[j].memory_strength
                 ELSE areas[i].memory_strength >= areas[j].memory_strength

\* C26 as claimed: the weak list reported by generate_learning_analytics
\* holds exactly the concepts with strength < 0.5 or accuracy < 0.6, in
\* ascending order of strength, and the strong list exactly the concepts in
\* state MASTERED or EXPERT, in descending order of strength.
C26_WeakAndStrongListsExact ==
    call.op = "analytics" /\ DOMAIN CallMemories # {} =>
        LET weak_areas == call.result.recommendations.weak_areas
            strong_areas == call.result.recommendations.strong_areas
        IN /\ ListedSet(weak_areas) = ClaimedWeak
           /\ InStrengthOrder(weak_areas, TRUE)
           /\ ListedSet(strong_areas) = ClaimedStrong
           /\ InStrengthOrder(strong_areas, FALSE)

\* areas lists, once each, the first five of the concepts of S in the given
\* order of strength: all of S if S has five concepts or fewer, else five
\* of them, none of which is further down the order than a concept left out.
FirstFiveOf(areas, S, up) ==
    /\ ListedSet(areas) \subseteq S
    /\ Len(areas) = Min(5, Cardinality(S))
    /\ Cardinality(ListedSet(areas)) = Len(areas)
    /\ InStrengthOrder(areas, up)
    /\ \A i \in DOMAIN areas :
          /\ areas[i].memory_strength = CallMemories[areas[i].concept_id].memory_strength
          /\ \A c \in S \ ListedSet(areas) :
                IF up THEN areas[i].memory_strength <= CallMemories[c].memory_strength
                ELSE areas[i].memory_strength >= CallMemories[c].memory_strength

\* C26 as amended: the weak list holds the five weakest (all, if there are
\* five or fewer) of the concepts with strength < 0.5 or accuracy < 0.6, in
\* ascending order of strength, and the strong list the five strongest
\* (all, if there are five or fewer) of the concepts in state MASTERED or
\* EXPERT, in descending order of strength.
C26_FiveWeakestAndFiveStrongest ==
    call.op = "analytics" /\ DOMAIN CallMemories # {} =>
        /\ FirstFiveOf(call.result.recommendations.weak_areas, ClaimedWeak, TRUE)
        /\ FirstFiveOf(call.result.recommendations.strong_areas, ClaimedStrong, FALSE)

\* A report on six concepts that need attention, with equally weak ones
\* among the five reported.
C26_Witness ==
    /\ call.op = "analytics"
    /\ Cardinality(ClaimedWeak) = 6
    /\ LET weak_areas == call.result.recommendations.weak_areas IN
       /\ Len(weak_areas) = 5
       /\ weak_areas[1].memory_strength = weak_areas[2].memory_strength
       /\ weak_areas[2].memory_strength < weak_areas[5].memory_strength

\* A report on weak and strong concepts, five or fewer of each, in which
\* both lists are complete.
C26_WitnessComplete ==
    /\ call.op = "analytics"
    /\ Cardinality(ClaimedWeak) >= 2 /\ Cardinality(ClaimedStrong) >= 2
    /\ ListedSet(call.result.recommendations.weak_areas) = ClaimedWeak
    /\ ListedSet(call.result.recommendations.strong_areas) = ClaimedStrong

-----------------------------------------------------------------------------
(* Properties of loading and saving profiles *)

\* The profile loaded for u holds what db.json holds for u, with the default
\* of the profile for a setting the file lacks.
LoadedWithDefaults(u) ==
    /\ u \in DOMAIN user_profiles
    /\ user_profiles[u].optimal_session_length
         = (IF "optimal_session_length" \in DOMAIN stored[u]
            THEN stored[u].optimal_session_length ELSE 25)
    /\ user_profiles[u].current_cognitive_load
         = (IF "current_cognitive_load" \in DOMAIN stored[u]
            THEN stored[u].current_cognitive_load ELSE 500)
    /\ DOMAIN user_profiles[u].concept_memories
         = (IF "concept_memories" \in DOMAIN stored[u]
            THEN DOMAIN stored[u].concept_memories ELSE {})

\* C17: loading a persisted profile in which some field is missing or cannot
\* be reconstructed yields a profile with defaults for that field; the load
\* as a whole does not fail, and the other persisted profiles are loaded too.
C17_DamagedProfilesLoad ==
    call.op = "load" /\ call.readable =>
        \A u \in DOMAIN stored : LoadedWithDefaults(u)

\* What holds instead: the profiles that come before the first one that
\* cannot be rebuilt are loaded, with defaults for the settings they lack,
\* and no other.
C17_LoadedUpToFirstFailure ==
    call.op = "load" /\ call.readable =>
        \A i \in DOMAIN call.order :
            IF \A j \in 1..i : ProfileLoads(stored[call.order[j]])
            THEN LoadedWithDefaults(call.order[i])
            ELSE call.order[i] \notin DOMAIN user_profiles

\* A load that stops at a profile without decay_rate and so leaves out an
\* intact profile that comes after it.
C17_IntactProfileLeftOut ==
    /\ call.op = "load" /\ call.readable
    /\ Len(call.order) = 2
    /\ "concept_memories" \in DOMAIN stored[call.order[1]]
    /\ "decay_rate" \notin DOMAIN stored[call.order[1]].concept_memories["c1"]
    /\ ProfileLoads(stored[call.order[2]])
    /\ user_profiles = <<>>

\* The profile of learner u in db.json is the one held in memory.
Persisted(u) ==
    /\ u \in DOMAIN stored
    /\ stored[u] = serialize_profile(user_profiles[u])

\* C16: when persisting the profile fails during record_learning_interaction
\* the failure is surfaced to the caller: the call does not report success
\* while the in-memory update is missing from storage.
C16_SaveFailureSurfaced ==
    call.op = "record" /\ reply.status = 200 => Persisted(call.user_id)

\* A call whose save succeeded: answered with success, the update stored.
C16_SavedAndReported ==
    /\ call.op = "record" /\ call.save_ok
    /\ reply.status = 200
    /\ Persisted(call.user_id)

-----------------------------------------------------------------------------
(* Properties of optimize_learning_path *)

\* The concept ids of a plan, session after session
RECURSIVE PlanOrder(_)
PlanOrder(learning_path) ==
    IF learning_path = <<>> THEN <<>>
    ELSE [i \in DOMAIN Head(learning_path).concepts |->
             Head(learning_path).concepts[i].concept_id]
         \o PlanOrder(Tail(learning_path))

\* The targets of the last path request, and the prerequisites of a target
\* among the targets
PathTargets == {call.target_concepts[i] : i \in DOMAIN call.target_concepts}

TargetPrerequisites(c) ==
    IF c \in DOMAIN CallMemories
    THEN {CallMemories[c].prerequisites[i] :
             i \in DOMAIN CallMemories[c].prerequisites} \cap PathTargets
    ELSE {}

\* The targets that c needs, directly or through other targets
RECURSIVE Needs(_, _)
Needs(S, n) ==
    IF n = 0 THEN S
    ELSE Needs(S \cup UNION {TargetPrerequisites(x) : x \in S}, n - 1)

AllNeeds(c) == Needs(TargetPrerequisites(c), Cardinality(PathTargets))

\* The edge "c needs p" lies on a cycle: p needs c in turn.
OnCycle(p, c) == p = c \/ c \in AllNeeds(p)

\* The places of a concept in a list
Places(seq, c) == {i \in DOMAIN seq : seq[i] = c}

\* C13: the concatenated session order of optimize_learning_path is a
\* topological order of the prerequisite graph restricted to the targets:
\* every target that is a prerequisite of another target comes before it,
\* except for prerequisite edges that lie on a cycle.
C13_PrerequisitesFirst ==
    call.op = "path" =>
        LET order == PlanOrder(call.result) IN
        \A c \in PathTargets : \A p \in TargetPrerequisites(c) :
            ~OnCycle(p, c) =>
                /\ Places(order, p) # {} /\ Places(order, c) # {}
                /\ \A i \in Places(order, p), j \in Places(order, c) : i < j

\* A request that names a concept before the prerequisite it needs, and
\* two more concepts that need each other.
C13_Witness ==
    /\ call.op = "path"
    /\ \E c \in PathTargets : \E p \in TargetPrerequisites(c) :
          /\ ~OnCycle(p, c)
          /\ \E i \in Places(call.target_concepts, c) :
                \A j \in Places(call.target_concepts, p) : i < j
    /\ \E c \in PathTargets : \E p \in TargetPrerequisites(c) :
          p # c /\ OnCycle(p, c)

\* The capacity of a session, in millionths
Capacity == user_profiles[call.user_id].current_cognitive_load * 1000

\* C14 as claimed: optimize_learning_path never emits two sessions whose
\* combined cognitive load is within the capacity of the profile.
C14_NoTwoSessionsMergeable ==
    call.op = "path" =>
        \A i, j \in DOMAIN call.result :
            i # j => call.result[i].cognitive_load + call.result[j].cognitive_load
                       > Capacity

\* C14 as amended: optimize_learning_path never emits two consecutive
\* sessions whose combined cognitive load is within the capacity of the
\* profile.
C14_NoTwoConsecutiveSessionsMergeable ==
    call.op = "path" =>
        \A i, j \in DOMAIN call.result :
            j = i + 1 => call.result[i].cognitive_load + call.result[j].cognitive_load
                           > Capacity

\* A plan of three sessions, the second of which holds two concepts: a
\* light concept, then a heavy one that did not fit with it, then a light
\* one that fitted with the heavy one.
C14_Witness ==
    /\ call.op = "path"
    /\ Len(call.result) >= 2
    /\ \E i \in DOMAIN call.result : Len(call.result[i].concepts) >= 2
    /\ \E i \in DOMAIN call.result :
          i + 1 \in DOMAIN call.result
          /\ call.result[i].cognitive_load <= Capacity
          /\ call.result[i + 1].cognitive_load <= Capacity

\* The load of the first k concepts of a session
RECURSIVE LoadOfFirst(_, _)
LoadOfFirst(session, k) ==
    IF k = 0 THEN 0
    ELSE LoadOfFirst(session, k - 1) + session.concepts[k].estimated_load

\* C25: in every plan of optimize_learning_path each session is non-empty,
\* a concept is added to the current session exactly when the session is
\* empty or adding it keeps the load of the session within the capacity
\* (so the concept that opens a session did not fit in the one before, and
\* every later concept of a session fitted), and therefore every session
\* that holds more than one concept has a total cognitive load within the
\* current_cognitive_load of the profile.
C25_SessionsPackedWithinCapacity ==
    call.op = "path" =>
        \A i \in DOMAIN call.result :
            LET session == call.result[i] IN
            /\ session.concepts # <<>>
            /\ session.cognitive_load = LoadOfFirst(session, Len(session.concepts))
            /\ \A k \in 2..Len(session.concepts) : LoadOfFirst(session, k) <= Capacity
            /\ i > 1 => call.result[i - 1].cognitive_load
                           + session.concepts[1].estimated_load > Capacity
            /\ Len(session.concepts) > 1 => session.cognitive_load <= Capacity

\* A plan with a session of two concepts, closed because the next concept
\* did not fit, and a session whose only concept is heavier than the
\* capacity.
C25_Witness ==
    /\ call.op = "path"
    /\ \E i \in DOMAIN call.result :
          /\ Len(call.result[i].concepts) >= 2
          /\ i + 1 \in DOMAIN call.result
    /\ \E i \in DOMAIN call.result :
          /\ Len(call.result[i].concepts) = 1
          /\ call.result[i].cognitive_load > Capacity

\* C28: for every target list, also with repeated ids, prerequisite cycles
\* and concepts never met, optimize_learning_path places each distinct
\* target in exactly one session exactly once, and places no concept that
\* is not a target: prerequisites outside the targets are not pulled in.
C28_EachTargetPlacedOnce ==
    call.op = "path" =>
        LET order == PlanOrder(call.result) IN
        /\ \A c \in PathTargets : Cardinality(Places(order, c)) = 1
        /\ \A i \in DOMAIN order : order[i] \in PathTargets

\* A request that names a concept twice, which is on a prerequisite cycle,
\* and a concept one of whose prerequisites is not a target.
C28_Witness ==
    /\ call.op = "path"
    /\ \E c \in PathTargets :
          /\ Cardinality(Places(call.target_concepts, c)) >= 2
          /\ c \in AllNeeds(c)
    /\ \E c \in PathTargets \cap DOMAIN CallMemories :
          \E i \in DOMAIN CallMemories[c].prerequisites :
              CallMemories[c].prerequisites[i] \notin PathTargets

\* A request that names a concept never met, twice, after a concept that
\* has it as a prerequisite.
C28_WitnessNeverMet ==
    /\ call.op = "path"
    /\ \E c \in PathTargets :
          /\ c \notin DOMAIN CallMemories
          /\ Cardinality(Places(call.target_concepts, c)) >= 2
          /\ \E d \in PathTargets : c \in TargetPrerequisites(d)

-----------------------------------------------------------------------------
(* Properties of concurrent interactions *)

AllDone == \A t \in Threads : threads[t].pc = "done"

\* The interaction served by thread t is in db.json: the attempts stored for
\* its concept are as many as the memory of the process holds.
InStorage(t) ==
    LET u == threads[t].user_id
        c == threads[t].concept_id
    IN /\ u \in DOMAIN stored
       /\ c \in DOMAIN stored[u].concept_memories
       /\ stored[u].concept_memories[c].total_attempts
            = user_profiles[u].concept_memories[c].total_attempts

\* C18: two record_learning_interaction operations for the same learner that
\* overlap run without lock or version check around load, mutate and save,
\* and the last writer wins: once both have finished, db.json holds what the
\* operation that wrote last had serialized, with that operation's own
\* interaction and whatever else it saw, and nothing of what it did not see.
C18_LastWriterWins ==
    AllDone /\ threads[1].user_id = threads[2].user_id =>
        /\ call.op = "write"
        /\ stored = threads[call.thread].snapshot
        /\ threads[call.thread].user_id \in DOMAIN stored
        /\ threads[call.thread].concept_id
             \in DOMAIN stored[threads[call.thread].user_id].concept_memories

\* Both operations for one learner and one concept have finished and
\* answered with success, and db.json reflects only one of the two
\* interactions.
C18_Witness ==
    /\ AllDone
    /\ threads[1].user_id = threads[2].user_id
    /\ threads[1].concept_id = threads[2].concept_id
    /\ user_profiles[threads[1].user_id].concept_memories[threads[1].concept_id].total_attempts = 2
    /\ stored[threads[1].user_id].concept_memories[threads[1].concept_id].total_attempts = 1
    /\ reply.status = 200

\* Both operations are between their update and their write at once.
C18_BothInside ==
    \A t \in Threads : threads[t].pc \in {"updated", "serialized"}

\* C19: operations for different learners do not interfere: under every
\* interleaving, once both have finished, no update recorded for either
\* learner is missing from storage.
C19_LearnersIndependent ==
    AllDone /\ threads[1].user_id # threads[2].user_id =>
        \A t \in Threads : InStorage(t)

\* The part that holds: an operation for one learner leaves the profile that
\* the process holds in memory for another learner as it is.
C19_MemoryOfOthersUntouched ==
    [][call'.op = "update" =>
          \A u \in DOMAIN user_profiles :
              u # threads'[call'.thread].user_id =>
                  u \in DOMAIN user_profiles' /\ user_profiles'[u] = user_profiles[u]]_vars

-----------------------------------------------------------------------------
(* Properties of the API boundary *)

\* C20: invalid interaction input (a review quality outside 0..5, a reported
\* confidence outside [0,1]) is rejected at the API boundary and never
\* reaches update_srs or record_learning_interaction, so that no card and no
\* concept memory is changed by such a request.
C20_InvalidInputRejected ==
    /\ req.op = "review" /\ req.quality \notin 0..5 => Reviewed = pre
    /\ call.op = "record" => 0 <= call.confidence /\ call.confidence <= 1000

\* A review with quality 7 that raised the ease factor of a card.
C20_QualitySevenApplied ==
    /\ req.op = "review" /\ req.quality = 7
    /\ Reviewed.EF > PreSrs.EF

\* An interaction with confidence 1.5 that reached the concept memory.
C20_ConfidenceOutOfRangeApplied ==
    /\ call.op = "record" /\ call.confidence = 1500
    /\ reply.status = 200
    /\ user_profiles["u1"].concept_memories["c1"].last_review = call.now

-----------------------------------------------------------------------------
(* Properties of one record_learning_interaction call *)

\* The memory that a call for learner u and concept c starts from: the one
\* held in memory, or the one built for a concept met for the first time,
\* whose counters are 0.
CountersBefore(u, c) ==
    IF <<u, c>> \in Memories
    THEN [total_attempts |-> Memory(u, c).total_attempts,
          review_count |-> Memory(u, c).review_count,
          correct_answers |-> Memory(u, c).correct_answers]
    ELSE [total_attempts |-> 0, review_count |-> 0, correct_answers |-> 0]

\* What one call did to the counters of its concept
CountersMoved(before, after, total, reviews, correct) ==
    /\ after.total_attempts = before.total_attempts + total
    /\ after.review_count = before.review_count + reviews
    /\ after.correct_answers = before.correct_answers + correct

\* C21: each record_learning_interaction call for a concept increases its
\* total_attempts and its review_count by exactly 1, and its correct_answers
\* by 1 if the answer is correct and by 0 otherwise; hence the counters never
\* decrease, correct_answers <= total_attempts, and review_count =
\* total_attempts = the number of interactions recorded for the concept (for
\* the scripted learner, the number of its interactions so far).
C21_CountersStep ==
    [][call'.op = "record" =>
          LET u == call'.user_id
              c == call'.concept_id
              m == user_profiles'[u].concept_memories[c]
          IN /\ CountersMoved(CountersBefore(u, c), m, 1, 1,
                              IF call'.is_correct THEN 1 ELSE 0)
             /\ m.correct_answers <= m.total_attempts
             /\ m.review_count = m.total_attempts
             /\ drill'.style # "none" /\ budget' = MaxSteps
                  => m.total_attempts = drill'.n]_vars

\* What holds of every call: one that returns moves the counters as C21
\* says, and one that raises has counted the attempt and not the review.
C21_CountersStepOrRaise ==
    [][call'.op = "record" =>
          LET u == call'.user_id
              c == call'.concept_id
              m == user_profiles'[u].concept_memories[c]
          IN /\ CountersMoved(CountersBefore(u, c), m, 1,
                              IF call'.raised THEN 0 ELSE 1,
                              IF call'.is_correct THEN 1 ELSE 0)
             /\ m.correct_answers <= m.total_attempts
             /\ m.review_count <= m.total_attempts]_vars

\* A right answer to a concept reviewed 2706 times: the request is answered
\* 500, the attempt is counted and the review is not.
C21_AttemptWithoutReview ==
    /\ call.op = "record" /\ call.raised /\ reply.status = 500
    /\ LET m == Memory(call.user_id, call.concept_id) IN
       /\ m.review_count = PowOverflow
       /\ m.total_attempts = PowOverflow + 1

\* A wrong answer after it: the call returns, db.json is written, and the
\* two counters differ for good.
C21_CountersApartInStorage ==
    /\ call.op = "record" /\ ~call.raised /\ call.save_ok
    /\ LET m == stored[call.user_id].concept_memories[call.concept_id] IN
       m.review_count < m.total_attempts

\* The classification of C22, on the stored counters and strength; accuracy
\* is correct_answers / total_attempts.
ClaimedKnowledgeState(m) ==
    LET attempts == m.total_attempts
        AccuracyGeq(tenths) == 10 * m.correct_answers >= tenths * attempts
    IN CASE attempts < 3 -> "LEARNING"
         [] attempts >= 10 /\ AccuracyGeq(9) /\ m.memory_strength >= 800 -> "EXPERT"
         [] attempts >= 5 /\ AccuracyGeq(8) /\ m.memory_strength >= 700
            /\ ~(attempts >= 10 /\ AccuracyGeq(9) /\ m.memory_strength >= 800)
              -> "MASTERED"
         [] attempts >= 3 /\ AccuracyGeq(6) /\ m.memory_strength >= 500
            /\ ~(attempts >= 5 /\ AccuracyGeq(8) /\ m.memory_strength >= 700)
              -> "PRACTICED"
         [] OTHER -> "LEARNING"

\* C22: after every record_learning_interaction call the stored
\* knowledge_state is the classification of the stored attempts, accuracy
\* and strength of the concept (LEARNING below 3 attempts; else EXPERT,
\* MASTERED, PRACTICED by their thresholds; else LEARNING); it can move down
\* as well as up and is never UNKNOWN.
C22_KnowledgeStateIsClassification ==
    \A uc \in Memories :
        LET m == Memory(uc[1], uc[2]) IN
        /\ m.knowledge_state = ClaimedKnowledgeState(m)
        /\ m.knowledge_state # "UNKNOWN"

\* A wrong answer, given with full confidence, that takes a concept down
\* from EXPERT (ten or more attempts, all right, strength >= 0.8 before the
\* answer took 0.15 away) to MASTERED.
C22_Witness ==
    /\ call.op = "record" /\ ~call.is_correct /\ call.confidence = 1000
    /\ <<call.user_id, call.concept_id>> \in Memories
    /\ LET m == Memory(call.user_id, call.concept_id) IN
       /\ m.total_attempts >= 11
       /\ m.correct_answers = m.total_attempts - 1
       /\ m.memory_strength + 150 >= 800
       /\ m.knowledge_state = "MASTERED"

\* The classification of C23 for a review count, on the memory m as stored:
\* the days since first exposure are those at the time of the last call,
\* which is last_review.
ClaimedLearningPhase(m, review_count) ==
    LET days == (m.last_review - m.first_exposure) \div 1000
    IN CASE review_count <= 2 -> "ACQUISITION"
         [] review_count > 2 /\ days <= 7 -> "CONSOLIDATION"
         [] review_count > 2 /\ days > 7
            /\ m.knowledge_state \in {"MASTERED", "EXPERT"} -> "TRANSFER"
         [] OTHER -> "RETENTION"

\* C23: after every record_learning_interaction call the stored
\* learning_phase is the classification of the stored review_count, the days
\* since first exposure at the time of the call and the stored
\* knowledge_state: ACQUISITION if review_count <= 2, else CONSOLIDATION
\* within 7 days of first exposure, else TRANSFER if MASTERED or EXPERT, else
\* RETENTION.
C23_PhaseIsClassification ==
    \A uc \in Memories :
        LET m == Memory(uc[1], uc[2]) IN
        m.learning_phase = ClaimedLearningPhase(m, m.review_count)

\* What the code keeps instead: the phase is the classification of the
\* review count the call found, one less than the count it stores.
C23_PhaseOfCountBeforeCall ==
    \A uc \in Memories :
        LET m == Memory(uc[1], uc[2]) IN
        m.learning_phase = ClaimedLearningPhase(m, m.review_count - 1)

\* The third interaction with a concept, within a week of the first: three
\* reviews are stored and the phase is still ACQUISITION.
C23_ThirdReviewStillAcquisition ==
    /\ call.op = "record"
    /\ <<call.user_id, call.concept_id>> \in Memories
    /\ LET m == Memory(call.user_id, call.concept_id) IN
       /\ m.review_count = 3
       /\ m.last_review - m.first_exposure <= 7000
       /\ m.learning_phase = "ACQUISITION"

\* C24: after every record_learning_interaction call, next_review lies
\* between 0.1 and 365 days after the time of the call; after an incorrect
\* answer it is exactly 0.5 days after the call, whatever the strength,
\* accuracy, phase, difficulty adjustment and review count of the concept.
C24_NextReviewWindow ==
    call.op = "record" =>
        LET m == Memory(call.user_id, call.concept_id) IN
        /\ call.now + 100 <= m.next_review
        /\ m.next_review <= call.now + 365000
        /\ ~call.is_correct => m.next_review = call.now + 500

\* What holds: the window and the half day, after every call that returns.
C24_NextReviewWindowOnReturn ==
    call.op = "record" /\ ~call.raised =>
        LET m == Memory(call.user_id, call.concept_id) IN
        /\ call.now + 100 <= m.next_review
        /\ m.next_review <= call.now + 365000
        /\ ~call.is_correct => m.next_review = call.now + 500

\* A right answer, eight days after a wrong one, to a concept reviewed 2706
\* times: the call raises and next_review stays in the past.
C24_NextReviewLeftBehind ==
    /\ call.op = "record" /\ call.raised
    /\ Memory(call.user_id, call.concept_id).next_review < call.now

\* C27: a record_learning_interaction call for learner u and concept c
\* leaves every other concept memory of u and the profile of every other
\* learner as they are, removes no concept memory, and does not change the
\* concept_id, the concept_name or the first_exposure of c once c exists.
C27_OnlyTheConceptChanges ==
    [][call'.op = "record" =>
          LET u == call'.user_id
              c == call'.concept_id
          IN /\ \A v \in DOMAIN user_profiles :
                   /\ v \in DOMAIN user_profiles'
                   /\ v # u => user_profiles'[v] = user_profiles[v]
             /\ u \in DOMAIN user_profiles =>
                   \A d \in DOMAIN user_profiles[u].concept_memories :
                       /\ d \in DOMAIN user_profiles'[u].concept_memories
                       /\ d # c => user_profiles'[u].concept_memories[d]
                                     = user_profiles[u].concept_memories[d]
             /\ <<u, c>> \in Memories =>
                   LET before == Memory(u, c)
                       after == user_profiles'[u].concept_memories[c]
                   IN /\ after.concept_id = before.concept_id
                      /\ after.concept_name = before.concept_name
                      /\ after.first_exposure = before.first_exposure]_vars

\* A call that names an existing concept anew, days after its first
\* exposure, while its learner has another concept and there is another
\* learner: the name and the first exposure stay.
C27_Witness ==
    /\ call.op = "record" /\ call.user_id = "u1" /\ call.concept_id = "c1"
    /\ "u2" \in DOMAIN user_profiles
    /\ "c2" \in DOMAIN user_profiles["u1"].concept_memories
    /\ LET m == Memory("u1", "c1") IN
       /\ m.learning_contexts[Len(m.learning_contexts)] = "exam"
       /\ m.concept_name = "Alpha"
       /\ m.first_exposure < call.now

-----------------------------------------------------------------------------
(* Properties of what a save leaves in db.json *)

\* C29: saving profiles never removes a persisted learner profile: a
\* profile that is in db.json and was not loaded into memory (loading
\* stopped at a malformed profile, or another process wrote it) is still in
\* db.json after any later record_learning_interaction for another learner.
C29_SaveKeepsPersistedProfiles ==
    [][call'.op = "record" =>
          \A v \in DOMAIN stored :
              v # call'.user_id => v \in DOMAIN stored']_vars

\* What the save does instead: after a call that wrote db.json, db.json
\* holds the profiles that the process holds in memory and no other.
C29_SaveWritesWhatMemoryHolds ==
    [][call'.op = "record" /\ call'.save_ok /\ ~call'.raised =>
          DOMAIN stored' = DOMAIN user_profiles']_vars

\* The card of the store with the id that thread t was asked to review, and
\* the same card in the copy of the store that thread t updated
StoredCard(t) == cards[CHOOSE k \in DOMAIN cards : cards[k].id = threads[t].cid]
UpdatedCard(t) ==
    threads[t].db[CHOOSE k \in DOMAIN threads[t].db : threads[t].db[k].id = threads[t].cid]

\* C30: when two review requests for two different cards overlap in time
\* (each loads the whole store, runs update_srs on its card and saves the
\* whole store), the store persisted after both have finished holds the
\* SRS update of both cards.
C30_BothReviewsPersisted ==
    AllDone /\ threads[1].cid # threads[2].cid =>
        \A t \in Threads : StoredCard(t).srs = UpdatedCard(t).srs

\* What holds: once both requests have finished the store is the copy of
\* the request that saved last, whole.
C30_LastSaveWins ==
    AllDone => call.op = "review_save" /\ cards = threads[call.thread].db

\* Both requests, for different cards, have finished, and the store holds
\* the review of one card only: the other card is as it was before.
C30_ReviewLost ==
    /\ AllDone /\ threads[1].cid # threads[2].cid
    /\ \E t \in Threads :
          /\ StoredCard(t).srs # UpdatedCard(t).srs
          /\ ~StoredCard(t).srs.has \/ StoredCard(t).srs.reps = 0

=============================================================================
